---- MODULE Spec2Model ----
(***************************************************************************)
(* A model of evdevpp: the force-feedback effect codec (info.cc), the      *)
(* event categorization (events.h, events.cc), the provisioning of a       *)
(* uinput device, its discovery and its force-feedback handshakes          *)
(* (user_device.cc), the capabilities of a device and their query          *)
(* (info.cc, device.cc), EventIO::Wait (eventio.cc), the copies and moves  *)
(* of the tagged unions (events.h, info.h) and the scoped grab (device.h). *)
(*                                                                         *)
(* Durations are integers counting microseconds, so that the part of an    *)
(* absl::Duration below one millisecond is visible.  Integers of the       *)
(* program keep their width: a 16-bit field holds 0 .. 65535.              *)
(***************************************************************************)
EXTENDS Integers, Sequences, FiniteSets, TLC

VARIABLES
    \* ---- effect codec (info.cc)
    effect,        \* the Effect handed to ToData
    data,          \* the ff_effect record written by ToData
    decoded,       \* the AnyEffect returned by AnyEffect::FromData
    cpc,           \* position of the codec run: "start", "encoded", "decoded"
    \* ---- categorization (events.cc)
    impl,          \* which CategorizeImpl of events.cc is built
    raw,           \* the InputEvent handed to AnyInputEvent::Categorize
    any_ev,        \* an AnyInputEvent object, constructed from raw
    first,         \* any_ev as its first Categorize() left it
    recat,         \* the static Categorize applied to the base of any_ev
    ncalls,        \* the calls of any_ev.Categorize() so far
    \* ---- provisioning of a uinput device (user_device.cc)
    api,           \* the entry called: "Create" or "CreateFromDevices"
    devices,       \* the source devices handed to CreateFromDevices
    excluded_event_types,  \* the exclusion set handed to CreateFromDevices
    options,       \* the CreateOptions the caller passed
    new_options,   \* the CreateOptions that Create runs with
    upc,           \* position of the provisioning
    status,        \* the absl::Status returned, "none" while running
    requests,      \* the ioctl requests issued on the uinput node, in order
    etype_idx,     \* which EnableEventCodes call of Create runs
    prop_idx,      \* the next input property to set
    pending,       \* codes the running loop over a hash container has left
    capabilities_, \* result.capabilities_
    device_,       \* result.device_: "found", "absent" or "none"
    fd_,           \* result.fd_: "none", "open" or "closed"
    \* ---- discovery of the created device (user_device.cc, FindDevice)
    device_path,   \* FindDeviceLinux: the node name derived from sysfs
    attempt,       \* FindDeviceLinux: the counter of the retry loop
    candidate_devices,  \* FindDeviceFallback: the sorted candidates
    cand_idx,      \* FindDeviceFallback: the next candidate to open
    dlog,          \* the system calls and waits of FindDevice, in order
    found_dev,     \* the InputDevice FindDevice returned
    \* ---- force-feedback handshakes (user_device.cc, BeginUpload..EndErase)
    ff_request,    \* the kernel's pending upload or erase request
    ff_event,      \* the EV_UINPUT event the caller read
    upload,        \* the UInputUpload BeginUpload returned
    erase,         \* the UInputErase BeginErase returned
    ff_ioctls,     \* the requests issued on the descriptor, in order
    ff_status,     \* what the last call returned
    fpc,           \* position of the caller of the handshake
    \* ---- capability comparison (info.cc, HasCapabilities)
    self,          \* the CapabilitiesInfo HasCapabilities is called on
    min,           \* its argument
    has_result,    \* what it returned
    hpc,           \* position of its caller
    first_min,     \* the argument of an earlier call on the same object
    first_result,  \* what that earlier call returned
    \* ---- capability query (device.cc, GetCapabilities)
    kdev,          \* what the kernel holds about the opened device
    qpc,           \* position of GetCapabilities
    ev_bits,       \* GetCapabilities: the bitmap of event types
    q_ev_type,     \* GetCapabilities: ev_type, the loop counter
    q_capabilities,  \* GetCapabilities: capabilities, the result
    query_ioctls,  \* the requests GetCapabilities issued, in order
    query_status,  \* what GetCapabilities returned
    \* ---- waiting for an event (eventio.cc, EventIO::Wait)
    wait_timeout,  \* the absl::Duration handed to Wait, in microseconds
    poll_timeout,  \* the third argument of poll, in milliseconds
    elapsed,       \* the milliseconds since Wait was called
    readable,      \* whether the descriptor has an event to read
    wait_result,   \* what Wait returned: "true", "false" or "error"
    wpc,           \* position of Wait
    \* ---- copies and moves of AnyInputEvent and AnyEffect (events.h, info.h)
    value_this,    \* the object constructed or assigned to
    value_rhs,     \* the object copied or moved from
    value_this0,   \* value_this before the operation
    value_rhs0,    \* value_rhs before the operation
    value_op,      \* the special member function that ran
    \* ---- scoped grabs (device.h, InputDevice::ScopedGrab)
    grabbed,       \* the kernel: which devices are grabbed
    scoped_grabs,  \* the ScopedGrab objects: their lifetime and their parent
    grab_ioctls,   \* the EVIOCGRAB requests issued, in order
    grab_calls     \* the calls of GrabInScope and on the objects, in order

codecVars == <<effect, data, decoded, cpc>>
eventVars == <<impl, raw, any_ev, first, recat, ncalls>>
createVars ==
    <<api, devices, excluded_event_types, options, new_options, upc, status,
      requests, etype_idx, prop_idx, pending, capabilities_, device_, fd_>>
discoveryVars ==
    <<device_path, attempt, candidate_devices, cand_idx, dlog, found_dev>>
ffVars == <<ff_request, ff_event, upload, erase, ff_ioctls, ff_status, fpc>>
capVars == <<self, min, has_result, hpc, first_min, first_result>>
queryVars ==
    <<kdev, qpc, ev_bits, q_ev_type, q_capabilities, query_ioctls, query_status>>
waitVars ==
    <<wait_timeout, poll_timeout, elapsed, readable, wait_result, wpc>>
valueVars == <<value_this, value_rhs, value_this0, value_rhs0, value_op>>
grabVars == <<grabbed, scoped_grabs, grab_ioctls, grab_calls>>
restVars == <<queryVars, waitVars, valueVars, grabVars>>
vars ==
    <<codecVars, eventVars, createVars, discoveryVars, ffVars, capVars,
      restVars>>

None == "none"

\* The value of a record-valued variable that holds no record yet.
NoValue == [variant |-> "none"]

(***************************************************************************)
(* Kernel constants (linux/input.h), by the place the program names them.  *)
(***************************************************************************)
EV_SYN == 0
EV_KEY == 1
EV_REL == 2
EV_ABS == 3
EV_MSC == 4
EV_SW == 5
EV_LED == 17
EV_SND == 18
EV_REP == 20
EV_FF == 21
EV_PWR == 22
EV_FF_STATUS == 23
EV_MAX == 31
EV_UINPUT == 257

kRumble == 80
kPeriodic == 81
kConstant == 82
kSpring == 83
kFriction == 84
kDamper == 85
kInertia == 86
kRamp == 87
kSquare == 88
kSine == 90
kCustom == 93
kMax == 127

kUncategorizedCode == 65535

(***************************************************************************)
(* Effect codec                                                            *)
(***************************************************************************)

\* absl::ToInt64Milliseconds: the whole milliseconds of d, truncated toward
\* zero (d in microseconds).
ToInt64Milliseconds(d) ==
    IF d >= 0 THEN d \div 1000 ELSE -((-d) \div 1000)

\* static_cast<std::uint16_t>: the value modulo 2^16.
CastU16(n) == n % 65536

ToInt16MillisecondsRounding(d) ==
    CastU16(ToInt64Milliseconds(d + 500))

ToInt16Milliseconds(d) ==
    CastU16(ToInt64Milliseconds(d))

\* absl::Milliseconds(n)
Milliseconds(n) == n * 1000

ToEnvelope(envelope) ==
    [attack_length |-> ToInt16Milliseconds(envelope.attack_length),
     attack_level  |-> envelope.attack_level,
     fade_length   |-> ToInt16Milliseconds(envelope.fade_length),
     fade_level    |-> envelope.fade_level]

FromEnvelope(envelope) ==
    [attack_length |-> Milliseconds(envelope.attack_length),
     attack_level  |-> envelope.attack_level,
     fade_length   |-> Milliseconds(envelope.fade_length),
     fade_level    |-> envelope.fade_level]

\* The concrete classes an AnyEffect can hold.
Variants ==
    {"Effect", "ConstantEffect", "InertiaEffect", "RampEffect", "SpringEffect",
     "DamperEffect", "FrictionEffect", "PeriodicEffect", "CustomEffect",
     "RumbleEffect"}

ConstantLike == {"ConstantEffect", "InertiaEffect"}
ConditionLike == {"SpringEffect", "DamperEffect", "FrictionEffect"}
PeriodicLike == {"PeriodicEffect", "CustomEffect"}

\* The virtual Type() of each class.
Type(e) ==
    CASE e.variant = "ConstantEffect" -> kConstant
      [] e.variant = "InertiaEffect"  -> kInertia
      [] e.variant = "RampEffect"     -> kRamp
      [] e.variant = "SpringEffect"   -> kSpring
      [] e.variant = "DamperEffect"   -> kDamper
      [] e.variant = "FrictionEffect" -> kFriction
      [] e.variant = "PeriodicEffect" -> kPeriodic
      [] e.variant = "CustomEffect"   -> kCustom
      [] e.variant = "RumbleEffect"   -> kRumble
      [] OTHER                        -> kMax

\* A zero-initialised ff_effect (ff_effect effect{}); u is the payload union,
\* `member` naming the member that was written last.
ZeroData ==
    [type |-> 0, id |-> 0, direction |-> 0,
     trigger |-> [button |-> 0, interval |-> 0],
     replay |-> [length |-> 0, delay |-> 0],
     u |-> [member |-> None]]

\* Effect::ToData: the fields every class writes.
EffectToData(e, d) ==
    [d EXCEPT !.type = Type(e),
              !.id = e.id,
              !.direction = e.direction,
              !.trigger = [button |-> e.trigger.button,
                           interval |-> ToInt16Milliseconds(e.trigger.interval)],
              !.replay = [length |-> ToInt16Milliseconds(e.replay.length),
                          delay |-> ToInt16Milliseconds(e.replay.delay)]]

ConstantEffectToData(e, d) ==
    [EffectToData(e, d) EXCEPT
        !.u = [member |-> "constant", level |-> e.level,
               envelope |-> ToEnvelope(e.envelope)]]

RampEffectToData(e, d) ==
    [EffectToData(e, d) EXCEPT
        !.u = [member |-> "ramp", start_level |-> e.start_level,
               end_level |-> e.end_level,
               envelope |-> ToEnvelope(e.envelope)]]

ConditionEffectToData(e, d) ==
    [EffectToData(e, d) EXCEPT
        !.u = [member |-> "condition",
               condition |->
                 [i \in 1..2 |->
                    [right_saturation |-> e.conditions[i].right_saturation,
                     left_saturation  |-> e.conditions[i].left_saturation,
                     right_coeff      |-> e.conditions[i].right_coeff,
                     left_coeff       |-> e.conditions[i].left_coeff,
                     deadband         |-> e.conditions[i].deadband,
                     center           |-> e.conditions[i].center]]]]

PeriodicEffectToData(e, d) ==
    [EffectToData(e, d) EXCEPT
        !.u = [member |-> "periodic",
               waveform |-> e.waveform,
               period |-> ToInt16Milliseconds(e.period),
               magnitude |-> e.magnitude,
               offset |-> e.offset,
               phase |-> e.phase,
               envelope |-> ToEnvelope(e.envelope),
               custom_len |-> e.custom_len,
               custom_data |-> e.custom_data]]

RumbleEffectToData(e, d) ==
    [EffectToData(e, d) EXCEPT
        !.u = [member |-> "rumble",
               strong_magnitude |-> e.strong_magnitude,
               weak_magnitude |-> e.weak_magnitude]]

\* AnyEffect::ToData: the virtual ToData of the live class.
ToData(e, d) ==
    CASE e.variant \in ConstantLike  -> ConstantEffectToData(e, d)
      [] e.variant = "RampEffect"    -> RampEffectToData(e, d)
      [] e.variant \in ConditionLike -> ConditionEffectToData(e, d)
      [] e.variant \in PeriodicLike  -> PeriodicEffectToData(e, d)
      [] e.variant = "RumbleEffect"  -> RumbleEffectToData(e, d)
      [] OTHER                       -> EffectToData(e, d)

\* A reading of the common fields that leaves the replay at its default.
EffectFromDataDefaultReplay(variant, d) ==
    [variant |-> variant,
     id |-> d.id,
     direction |-> d.direction,
     trigger |-> [button |-> d.trigger.button,
                  interval |-> Milliseconds(d.trigger.interval)],
     replay |-> [length |-> 0, delay |-> 0]]

\* Effect::FromData: the fields every class reads.
EffectFromData(variant, d) ==
    [variant |-> variant,
     id |-> d.id,
     direction |-> d.direction,
     trigger |-> [button |-> d.trigger.button,
                  interval |-> Milliseconds(d.trigger.interval)],
     replay |-> [length |-> Milliseconds(d.replay.length),
                 delay |-> Milliseconds(d.replay.delay)]]

\* r extended by the fields of s.
Extend(r, s) ==
    [f \in (DOMAIN r) \cup (DOMAIN s) |-> IF f \in DOMAIN s THEN s[f] ELSE r[f]]

ConstantEffectFromData(variant, d) ==
    Extend(EffectFromData(variant, d),
           [level |-> d.u.level, envelope |-> FromEnvelope(d.u.envelope)])

RampEffectFromData(variant, d) ==
    Extend(EffectFromData(variant, d),
           [start_level |-> d.u.start_level, end_level |-> d.u.end_level,
            envelope |-> FromEnvelope(d.u.envelope)])

ConditionEffectFromData(variant, d) ==
    Extend(EffectFromData(variant, d),
           [conditions |->
              [i \in 1..2 |->
                 [right_saturation |-> d.u.condition[i].right_saturation,
                  left_saturation  |-> d.u.condition[i].left_saturation,
                  right_coeff      |-> d.u.condition[i].right_coeff,
                  left_coeff       |-> d.u.condition[i].left_coeff,
                  deadband         |-> d.u.condition[i].deadband,
                  center           |-> d.u.condition[i].center]]])

PeriodicEffectFromData(variant, d) ==
    Extend(EffectFromData(variant, d),
           [waveform |-> d.u.waveform,
            period |-> Milliseconds(d.u.period),
            magnitude |-> d.u.magnitude,
            offset |-> d.u.offset,
            phase |-> d.u.phase,
            envelope |-> FromEnvelope(d.u.envelope),
            custom_len |-> d.u.custom_len,
            custom_data |-> d.u.custom_data])

RumbleEffectFromData(variant, d) ==
    Extend(EffectFromData(variant, d),
           [strong_magnitude |-> d.u.strong_magnitude,
            weak_magnitude |-> d.u.weak_magnitude])

\* The class AnyEffect::FromData constructs for a type tag.
VariantOfTag(type) ==
    CASE type = kConstant -> "ConstantEffect"
      [] type = kPeriodic -> "PeriodicEffect"
      [] type = kRamp     -> "RampEffect"
      [] type = kSpring   -> "SpringEffect"
      [] type = kFriction -> "FrictionEffect"
      [] type = kDamper   -> "DamperEffect"
      [] type = kRumble   -> "RumbleEffect"
      [] type = kInertia  -> "InertiaEffect"
      [] type = kCustom   -> "CustomEffect"
      [] OTHER            -> "Effect"

\* AnyEffect::FromData: construct the class of the tag, then its virtual
\* FromData.
FromData(d) ==
    LET variant == VariantOfTag(d.type) IN
    CASE variant \in ConstantLike  -> ConstantEffectFromData(variant, d)
      [] variant = "RampEffect"    -> RampEffectFromData(variant, d)
      [] variant \in ConditionLike -> ConditionEffectFromData(variant, d)
      [] variant \in PeriodicLike  -> PeriodicEffectFromData(variant, d)
      [] variant = "RumbleEffect"  -> RumbleEffectFromData(variant, d)
      [] OTHER                     -> EffectFromData(variant, d)

(***************************************************************************)
(* Effects handed to the codec.  Every field of a class is filled; fields  *)
(* of one width take different values, so that a field written to the      *)
(* wrong place shows.                                                      *)
(***************************************************************************)
S16Samples == {-32768, -1, 32767}
U16Samples == {0, 32767, 65535}
\* Microseconds: whole and fractional milliseconds inside the 16-bit range,
\* the first value beyond it, and a negative duration.
DurSamples == {0, 1999, 65535999, 65536000, -1500}
PtrSamples == {"nullptr", "buf"}

OtherS16(s) == -1 - s
OtherU16(u) == 65535 - u

CommonFields(variant, s, u, d1, d2) ==
    [variant |-> variant, id |-> s, direction |-> u,
     trigger |-> [button |-> OtherU16(u), interval |-> d1],
     replay |-> [length |-> d2, delay |-> d1]]

EnvelopeSample(u, d1, d2) ==
    [attack_length |-> d2, attack_level |-> u,
     fade_length |-> d1, fade_level |-> OtherU16(u)]

ConditionSample(s, u) ==
    [right_saturation |-> u, left_saturation |-> OtherU16(u),
     right_coeff |-> s, left_coeff |-> OtherS16(s),
     deadband |-> u, center |-> OtherS16(s)]

Payload(variant, s, u, d1, d2) ==
    CASE variant \in ConstantLike ->
           [level |-> OtherS16(s), envelope |-> EnvelopeSample(u, d1, d2)]
      [] variant = "RampEffect" ->
           [start_level |-> s, end_level |-> OtherS16(s),
            envelope |-> EnvelopeSample(u, d1, d2)]
      [] variant \in ConditionLike ->
           [conditions |-> [i \in 1..2 |->
               IF i = 1 THEN ConditionSample(s, u)
                        ELSE ConditionSample(OtherS16(s), OtherU16(u))]]
      [] variant \in PeriodicLike ->
           [waveform |-> IF variant = "CustomEffect" THEN kCustom
                         ELSE IF u = 0 THEN kSquare ELSE kSine,
            period |-> d2, magnitude |-> s, offset |-> OtherS16(s),
            phase |-> u, envelope |-> EnvelopeSample(u, d1, d2),
            custom_len |-> IF variant = "CustomEffect" THEN 2 ELSE 0,
            custom_data |-> IF variant = "CustomEffect" THEN "buf" ELSE "nullptr"]
      [] variant = "RumbleEffect" ->
           [strong_magnitude |-> u, weak_magnitude |-> OtherU16(u)]
      [] OTHER -> [variant |-> variant]

MakeEffect(variant, s, u, d1, d2) ==
    Extend(CommonFields(variant, s, u, d1, d2), Payload(variant, s, u, d1, d2))

EffectSamples ==
    {MakeEffect(v, s, u, d1, d2) :
        v \in Variants, s \in S16Samples, u \in U16Samples,
        d1 \in DurSamples, d2 \in DurSamples}

CodecIdle ==
    /\ effect = NoValue
    /\ data = NoValue
    /\ decoded = NoValue
    /\ cpc = "idle"

\* effect.ToData(&record) on a zero-initialised record, as NewEffect,
\* UpdateEffect and EndUpload call it.
Encode ==
    /\ cpc = "start"
    /\ data' = ToData(effect, ZeroData)
    /\ cpc' = "encoded"
    /\ UNCHANGED <<effect, decoded>>
    /\ UNCHANGED <<eventVars, createVars, discoveryVars, ffVars, capVars,
               restVars>>

\* AnyEffect::FromData(&record)
Decode ==
    /\ cpc = "encoded"
    /\ decoded' = FromData(data)
    /\ cpc' = "decoded"
    /\ UNCHANGED <<effect, data>>
    /\ UNCHANGED <<eventVars, createVars, discoveryVars, ffVars, capVars,
               restVars>>

CodecNext == Encode \/ Decode

(***************************************************************************)
(* Event categorization                                                    *)
(***************************************************************************)

\* The code tables of ecodes.h (Key::CodeToString() and so on), cut down to
\* the codes of CodeSamples.  The numbers are those of the kernel headers
\* ecodes.h is generated from: 84 is FF_FRICTION and no key, 85 is FF_DAMPER
\* and KEY_ZENKAKUHANKAKU, 272 is BTN_LEFT, 195 is in no table.
CodeSamples == {0, 1, 2, 84, 85, 195, 272, kUncategorizedCode}

KeyTable == {0, 1, 2, 85}
ButtonTable == {272}
RelativeAxisTable == {0, 1, 2}
AbsoluteAxisTable == {0, 1, 2}
SynchTable == {0, 1, 2}
MiscTable == {0, 1, 2}
SwitchTable == {0, 1, 2}
LEDTable == {0, 1, 2}
SoundTable == {0, 1, 2}
AutorepeatTable == {0, 1}
ForceFeedbackTable == {0, 1, 84, 85}
UIForceFeedbackTable == {1, 2}

\* The event classes, in the order both Categorize passes try them.
CatEvents ==
    <<"KeyEvent", "RelEvent", "AbsEvent", "SynchEvent", "MiscEvent",
      "SwitchEvent", "LEDEvent", "SoundEvent", "AutorepeatEvent",
      "ForceFeedbackEvent", "UIForceFeedbackEvent">>

\* ECodeType::CodeToString() of CategorizedEvent<ECodeType>.
CodeToString(cat) ==
    CASE cat = "RelEvent"             -> RelativeAxisTable
      [] cat = "AbsEvent"             -> AbsoluteAxisTable
      [] cat = "SynchEvent"           -> SynchTable
      [] cat = "MiscEvent"            -> MiscTable
      [] cat = "SwitchEvent"          -> SwitchTable
      [] cat = "LEDEvent"             -> LEDTable
      [] cat = "SoundEvent"           -> SoundTable
      [] cat = "AutorepeatEvent"      -> AutorepeatTable
      [] cat = "ForceFeedbackEvent"   -> ForceFeedbackTable
      [] cat = "UIForceFeedbackEvent" -> UIForceFeedbackTable

\* InputEvent: the generic event.
InputEvent(timestamp, type, code, value) ==
    [variant |-> "InputEvent", timestamp |-> timestamp, type |-> type,
     code |-> code, value |-> value]

\* KeyEvent::ToState
ToState(v) ==
    CASE v = 1 -> "kDown"
      [] v = 2 -> "kHold"
      [] OTHER -> "kUp"

\* KeyEvent's constructor with the button looked up in the key table.
KeyEventButtonFromKeyTable(ev) ==
    [variant |-> "KeyEvent", timestamp |-> ev.timestamp, type |-> ev.type,
     code |-> ev.code, value |-> ev.value,
     state |-> ToState(ev.value),
     key |-> IF ev.code \in KeyTable THEN ev.code ELSE kUncategorizedCode,
     button |-> IF ev.code \in KeyTable THEN ev.code ELSE kUncategorizedCode]

\* KeyEvent's constructor from a generic event.
KeyEvent(ev) ==
    [variant |-> "KeyEvent", timestamp |-> ev.timestamp, type |-> ev.type,
     code |-> ev.code, value |-> ev.value,
     state |-> ToState(ev.value),
     key |-> IF ev.code \in KeyTable THEN ev.code ELSE kUncategorizedCode,
     button |-> IF ev.code \in ButtonTable THEN ev.code ELSE kUncategorizedCode]

\* CategorizedEvent<ECodeType>'s constructor from a generic event.
CategorizedEvent(cat, ev) ==
    [variant |-> cat, timestamp |-> ev.timestamp, type |-> ev.type,
     code |-> ev.code, value |-> ev.value,
     categorized |-> IF ev.code \in CodeToString(cat) THEN ev.code
                     ELSE kUncategorizedCode]

\* CatEvents{uncategorized_ev}
Construct(cat, ev) ==
    IF cat = "KeyEvent" THEN KeyEvent(ev) ELSE CategorizedEvent(cat, ev)

IsKey(e) == e.key # kUncategorizedCode
IsButton(e) == e.button # kUncategorizedCode

\* IsInCategory() answering by class alone, without the resolved code.
IsInCategoryByClass(e) == e.variant # "InputEvent"

\* The virtual IsInCategory().
IsInCategory(e) ==
    CASE e.variant = "InputEvent" -> FALSE
      [] e.variant = "KeyEvent"   -> IsKey(e) \/ IsButton(e)
      [] OTHER                    -> e.categorized # kUncategorizedCode

\* A generic part that takes a KeyEvent's key for its raw code.
BaseFromKey(e) ==
    InputEvent(e.timestamp, e.type,
               IF e.variant = "KeyEvent" THEN e.key ELSE e.code, e.value)

\* AnyInputEvent::Base() copied as an InputEvent: the generic part.
Base(e) == InputEvent(e.timestamp, e.type, e.code, e.value)

\* ExpectedEventType<ActualEvent>() of events.h.
ExpectedEventType(cat) ==
    CASE cat = "KeyEvent"             -> EV_KEY
      [] cat = "SynchEvent"           -> EV_SYN
      [] cat = "RelEvent"             -> EV_REL
      [] cat = "AbsEvent"             -> EV_ABS
      [] cat = "MiscEvent"            -> EV_MSC
      [] cat = "SwitchEvent"          -> EV_SW
      [] cat = "LEDEvent"             -> EV_LED
      [] cat = "SoundEvent"           -> EV_SND
      [] cat = "AutorepeatEvent"      -> EV_REP
      [] cat = "ForceFeedbackEvent"   -> EV_FF_STATUS
      [] cat = "UIForceFeedbackEvent" -> EV_UINPUT
      [] OTHER                        -> EV_MAX

\* CheckEventType<CatEvent>(ev_type) of events.cc.
CheckEventType(cat, ev_type) ==
    CASE cat = "KeyEvent"             -> ev_type = EV_KEY
      [] cat = "SynchEvent"           -> ev_type = EV_SYN
      [] cat = "RelEvent"             -> ev_type = EV_REL
      [] cat = "AbsEvent"             -> ev_type = EV_ABS
      [] cat = "MiscEvent"            -> ev_type = EV_MSC
      [] cat = "SwitchEvent"          -> ev_type = EV_SW
      [] cat = "LEDEvent"             -> ev_type = EV_LED
      [] cat = "SoundEvent"           -> ev_type = EV_SND
      [] cat = "AutorepeatEvent"      -> ev_type = EV_REP
      [] cat = "ForceFeedbackEvent"   -> ev_type = EV_FF_STATUS
      [] cat = "UIForceFeedbackEvent" -> ev_type = EV_UINPUT
      [] OTHER                        -> FALSE

\* events.cc defines CategorizeImpl twice; a build holds one of the two.
Builds == {"CheckEventType", "ExpectedEventType"}

\* A bool in an integer comparison.
BoolToInt(b) == IF b THEN 1 ELSE 0

\* The guard of CategorizeImpl, first definition:
\*   (!CheckType || CheckEventType<CatEvents>(uncategorized_ev.type))
GuardCheckEventType(CheckType, cat, ev) ==
    (~CheckType) \/ CheckEventType(cat, ev.type)

\* The guard of CategorizeImpl, second definition:
\*   (!CheckType || ExpectedEventType<CatEvents>()) == uncategorized_ev.type
\* The parenthesis closes before ==: the left side is a bool (an EventType
\* is true when its code is not 0) and is compared, as 0 or 1, with the type.
GuardExpectedEventType(CheckType, cat, ev) ==
    BoolToInt((~CheckType) \/ (ExpectedEventType(cat) # 0)) = ev.type

Guard(build, CheckType, cat, ev) ==
    IF build = "CheckEventType"
    THEN GuardCheckEventType(CheckType, cat, ev)
    ELSE GuardExpectedEventType(CheckType, cat, ev)

\* The fold of CategorizeImpl from class i on: the first class whose guard
\* holds and whose event is in category is adopted; otherwise the result
\* stays the generic event.
RECURSIVE CategorizeFrom(_, _, _, _)
CategorizeFrom(build, CheckType, ev, i) ==
    IF i > Len(CatEvents) THEN ev
    ELSE IF Guard(build, CheckType, CatEvents[i], ev)
            /\ IsInCategory(Construct(CatEvents[i], ev))
         THEN Construct(CatEvents[i], ev)
         ELSE CategorizeFrom(build, CheckType, ev, i + 1)

CategorizeImpl(build, CheckType, uncategorized_ev) ==
    CategorizeFrom(build, CheckType, uncategorized_ev, 1)

\* AnyInputEvent::Categorize(const InputEvent&)
Categorize(build, uncategorized_ev) ==
    LET result == CategorizeImpl(build, TRUE, uncategorized_ev) IN
    IF IsInCategory(result) THEN result
    ELSE CategorizeImpl(build, FALSE, uncategorized_ev)

\* Raw records read from a device.
TypeSamples ==
    {EV_SYN, EV_KEY, EV_REL, EV_ABS, EV_MSC, EV_SW, EV_LED, EV_SND, EV_REP,
     EV_FF, EV_PWR, EV_FF_STATUS, EV_UINPUT}
ValueSamples == {0, 1, 2, -7}
TimeSamples == {0, 1700000000}

MaxCalls == 2

EventIdle ==
    /\ impl = None
    /\ raw = NoValue
    /\ any_ev = NoValue
    /\ first = NoValue
    /\ recat = NoValue
    /\ ncalls = 0

RawSamples ==
    {InputEvent(t, ty, c, v) :
        t \in TimeSamples, ty \in TypeSamples,
        c \in CodeSamples, v \in ValueSamples}

\* any_ev.Categorize():  *this = Categorize(Base())
CategorizeInPlace ==
    /\ impl # None
    /\ ncalls < MaxCalls
    /\ any_ev' = Categorize(impl, Base(any_ev))
    /\ first' = IF ncalls = 0 THEN any_ev' ELSE first
    /\ ncalls' = ncalls + 1
    /\ UNCHANGED <<impl, raw, recat>>
    /\ UNCHANGED <<codecVars, createVars, discoveryVars, ffVars, capVars,
               restVars>>

\* AnyInputEvent::Categorize(any_ev.Base()) into a second object.
CategorizeBase ==
    /\ impl # None
    /\ ncalls >= 1
    /\ recat = NoValue
    /\ recat' = Categorize(impl, Base(any_ev))
    /\ UNCHANGED <<impl, raw, any_ev, first, ncalls>>
    /\ UNCHANGED <<codecVars, createVars, discoveryVars, ffVars, capVars,
               restVars>>

EventNext == CategorizeInPlace \/ CategorizeBase

(***************************************************************************)
(* Provisioning of a uinput device (user_device.cc)                        *)
(***************************************************************************)

UINPUT_MAX_NAME_SIZE == 80
kMaxEffects == 96

\* static_cast<std::uint32_t>(int): a negative int wraps by 2^32.
CastU32(n) == IF n >= 0 THEN n ELSE ((n + 2147483647) + 2147483647) + 2

Max(a, b) == IF a < b THEN b ELSE a

\* std::min
Min(a, b) == IF b < a THEN b ELSE a

\* An absolute_axes map without entries.
NoAxes == <<>>

\* CapabilitiesInfo{}
CapabilitiesInfo ==
    [keys |-> {}, synchs |-> {}, relative_axes |-> {},
     absolute_axes |-> NoAxes, miscs |-> {}, switches |-> {}, leds |-> {},
     sounds |-> {}, autorepeats |-> {}, force_feedbacks |-> {},
     uinputs |-> {}]

\* CapabilitiesInfo::AllKeys(): every code of the key and the button table.
AllKeys == [CapabilitiesInfo EXCEPT !.keys = KeyTable \cup ButtonTable]

\* flat_hash_set::insert(first, last)
InsertCodes(into, from) == into \cup from

\* A map insert that overwrites the entry of a key it already holds.
InsertOrAssignAxes(into, from) ==
    [c \in DOMAIN into \cup DOMAIN from |->
        IF c \in DOMAIN from THEN from[c] ELSE into[c]]

\* flat_hash_map::insert(first, last): a key the map holds keeps its entry.
InsertAxes(into, from) ==
    [c \in DOMAIN into \cup DOMAIN from |->
        IF c \in DOMAIN into THEN into[c] ELSE from[c]]

\* MergeIfNotExcluded for a flat_hash_set of codes.
MergeIfNotExcluded(etype, excl, into, from) ==
    IF etype \notin excl THEN InsertCodes(into, from) ELSE into

\* MergeIfNotExcluded for the flat_hash_map of absolute axes.
MergeAxesIfNotExcluded(etype, excl, into, from) ==
    IF etype \notin excl THEN InsertAxes(into, from) ELSE into

\* One round of the loop of CreateFromDevices.
MergeDevice(opts, dev, excl) ==
    LET into == opts.capabilities
        from == dev.capabilities
    IN [opts EXCEPT
          !.max_effects = Min(opts.max_effects, dev.ff_effects_count),
          !.capabilities =
              [keys |-> MergeIfNotExcluded(EV_KEY, excl, into.keys, from.keys),
               synchs |->
                   MergeIfNotExcluded(EV_SYN, excl, into.synchs, from.synchs),
               relative_axes |->
                   MergeIfNotExcluded(EV_REL, excl, into.relative_axes,
                                      from.relative_axes),
               absolute_axes |->
                   MergeAxesIfNotExcluded(EV_ABS, excl, into.absolute_axes,
                                          from.absolute_axes),
               miscs |->
                   MergeIfNotExcluded(EV_MSC, excl, into.miscs, from.miscs),
               switches |->
                   MergeIfNotExcluded(EV_SW, excl, into.switches,
                                      from.switches),
               leds |-> MergeIfNotExcluded(EV_LED, excl, into.leds, from.leds),
               sounds |->
                   MergeIfNotExcluded(EV_SND, excl, into.sounds, from.sounds),
               autorepeats |->
                   MergeIfNotExcluded(EV_REP, excl, into.autorepeats,
                                      from.autorepeats),
               force_feedbacks |->
                   MergeIfNotExcluded(EV_FF, excl, into.force_feedbacks,
                                      from.force_feedbacks),
               uinputs |->
                   MergeIfNotExcluded(EV_UINPUT, excl, into.uinputs,
                                      from.uinputs)]]

\* The loop of CreateFromDevices from device i on.
RECURSIVE MergeDevices(_, _, _, _)
MergeDevices(opts, devs, excl, i) ==
    IF i > Len(devs) THEN opts
    ELSE MergeDevices(MergeDevice(opts, devs[i], excl), devs, excl, i + 1)

\* The order of the EnableEventCodes calls of Create.
EnableOrderByEventType == <<EV_KEY, EV_REL, EV_ABS, EV_MSC, EV_SW, EV_FF, EV_SND>>
EnableOrder == <<EV_KEY, EV_ABS, EV_REL, EV_MSC, EV_SW, EV_FF, EV_SND>>

\* The codes Create hands to EnableEventCodes with an event type.
CodesOf(capabilities, etype) ==
    CASE etype = EV_KEY -> capabilities.keys
      [] etype = EV_ABS -> DOMAIN capabilities.absolute_axes
      [] etype = EV_REL -> capabilities.relative_axes
      [] etype = EV_MSC -> capabilities.miscs
      [] etype = EV_SW  -> capabilities.switches
      [] etype = EV_FF  -> capabilities.force_feedbacks
      [] etype = EV_SND -> capabilities.sounds
      [] OTHER          -> {}

\* The switch of EnableEventCodes: the request that enables a code.
RequestOf(etype) ==
    CASE etype = EV_KEY -> "UI_SET_KEYBIT"
      [] etype = EV_ABS -> "UI_SET_ABSBIT"
      [] etype = EV_REL -> "UI_SET_RELBIT"
      [] etype = EV_MSC -> "UI_SET_MSCBIT"
      [] etype = EV_SW  -> "UI_SET_SWBIT"
      [] etype = EV_LED -> "UI_SET_LEDBIT"
      [] etype = EV_FF  -> "UI_SET_FFBIT"
      [] etype = EV_SND -> "UI_SET_SNDBIT"
      [] OTHER          -> None

\* An ioctl on the uinput node: the request, its argument and whether the
\* kernel accepted it.
Request(req, arg, ok) == [req |-> req, arg |-> arg, ok |-> ok]

(***************************************************************************)
(* Source devices, exclusion sets and options handed to the provisioning.  *)
(***************************************************************************)

AbsInfo(minimum, maximum, fuzz, flat) ==
    [value |-> 0, minimum |-> minimum, maximum |-> maximum, fuzz |-> fuzz,
     flat |-> flat, resolution |-> 0]

StickAxis == AbsInfo(-32768, 32767, 16, 128)
WheelAxis == AbsInfo(0, 255, 0, 15)

\* An opened InputDevice: what Capabilities() and FFEffectsCount() return.
Gamepad ==
    [capabilities |->
        [CapabilitiesInfo EXCEPT
            !.keys = {272}, !.synchs = {0},
            !.absolute_axes = [c \in {0, 1} |-> StickAxis],
            !.force_feedbacks = {kRumble}],
     ff_effects_count |-> 4]

Wheel ==
    [capabilities |->
        [CapabilitiesInfo EXCEPT
            !.keys = {273}, !.synchs = {0, 1},
            !.absolute_axes = [c \in {0} |-> WheelAxis],
            !.miscs = {4}, !.leds = {0},
            !.force_feedbacks = {kRumble, kConstant}],
     ff_effects_count |-> 2]

Joystick ==
    [capabilities |->
        [CapabilitiesInfo EXCEPT
            !.keys = {272}, !.synchs = {0}, !.relative_axes = {0},
            !.absolute_axes = [c \in {1} |-> WheelAxis],
            !.switches = {0}, !.sounds = {1}, !.autorepeats = {0, 1},
            !.uinputs = {1}],
     ff_effects_count |-> 8]

DeviceSamples == {Gamepad, Wheel, Joystick}

MaxDevices == 3

DeviceLists == UNION {[1..n -> DeviceSamples] : n \in 0..MaxDevices}

\* The default exclusion set of CreateFromDevices and two others.
ExclusionSamples == {{}, {EV_SYN, EV_FF}, {EV_KEY, EV_ABS, EV_LED}}

\* A std::string is the sequence of its bytes.  "evdevpp-uinput", the name of
\* CreateOptions by default.
DefaultName ==
    <<101, 118, 100, 101, 118, 112, 112, 45, 117, 105, 110, 112, 117, 116>>

\* A name of n letters 'a'.
NameOfSize(n) == [i \in 1..n |-> 97]

\* The terminating byte of a C string.
NUL == 0

\* "pad" followed by a NUL byte that is part of the std::string.
PadNulName == <<112, 97, 100, NUL>>

\* CreateOptions: Defaults(), options of a caller's own, a name of 81
\* characters, and a name that ends in a NUL byte.
OptionSamples ==
    {[capabilities |-> AllKeys, name |-> DefaultName, name_size |-> 14,
      input_props |-> <<>>, max_effects |-> kMaxEffects],
     [capabilities |->
         [CapabilitiesInfo EXCEPT
             !.keys = {30}, !.absolute_axes = [c \in {5} |-> WheelAxis],
             !.leds = {1}, !.force_feedbacks = {kSine}],
      name |-> NameOfSize(80), name_size |-> 80, input_props |-> <<0, 1>>,
      max_effects |-> 3],
     [capabilities |-> AllKeys, name |-> NameOfSize(81), name_size |-> 81,
      input_props |-> <<>>, max_effects |-> kMaxEffects],
     [capabilities |-> [CapabilitiesInfo EXCEPT !.keys = {272}],
      name |-> PadNulName, name_size |-> 4, input_props |-> <<>>,
      max_effects |-> 1]}

(***************************************************************************)
(* Create, one step per system call.  Every ioctl may be refused by the    *)
(* kernel.                                                                 *)
(***************************************************************************)

DiscoveryIdle ==
    /\ device_path = <<>>
    /\ attempt = 0
    /\ candidate_devices = <<>>
    /\ cand_idx = 0
    /\ dlog = <<>>
    /\ found_dev = NoValue

CreateIdle ==
    /\ api = None
    /\ devices = <<>>
    /\ excluded_event_types = {}
    /\ options = NoValue
    /\ new_options = NoValue
    /\ upc = None
    /\ status = None
    /\ requests = <<>>
    /\ etype_idx = 0
    /\ prop_idx = 0
    /\ pending = {}
    /\ capabilities_ = NoValue
    /\ device_ = None
    /\ fd_ = None

\* A return of Create with an error: the UserInputDevice under construction
\* is destroyed and, if the node was opened, its descriptor closed.
Return(error) ==
    /\ upc' = "done"
    /\ status' = error
    /\ fd_' = IF fd_ = "open" THEN "closed" ELSE fd_

\* The caller calls Create(options).
CallCreate ==
    /\ upc = "start"
    /\ \E opts \in OptionSamples :
          /\ options' = opts
          /\ new_options' = opts
    /\ api' = "Create"
    /\ upc' = "create"
    /\ UNCHANGED <<devices, excluded_event_types, status, fd_, requests,
                   etype_idx, prop_idx, pending, capabilities_, device_>>
    /\ UNCHANGED <<codecVars, eventVars, discoveryVars, ffVars, capVars,
               restVars>>

\* CreateFromDevices(devices, excluded_event_types, options) up to its call
\* of Create(new_options).
CreateFromDevices ==
    /\ upc = "start"
    /\ \E devs \in DeviceLists, excl \in ExclusionSamples,
          opts \in OptionSamples :
          /\ devices' = devs
          /\ excluded_event_types' = excl
          /\ options' = opts
          /\ new_options' =
                 MergeDevices([opts EXCEPT !.capabilities = CapabilitiesInfo],
                              devs, excl, 1)
    /\ api' = "CreateFromDevices"
    /\ upc' = "create"
    /\ UNCHANGED <<status, fd_, requests, etype_idx, prop_idx, pending,
                   capabilities_, device_>>
    /\ UNCHANGED <<codecVars, eventVars, discoveryVars, ffVars, capVars,
               restVars>>

\* Create: is_device(devnode), the length of the name, open(devnode).
CreateOpen ==
    /\ upc = "create"
    /\ \E is_device \in BOOLEAN, opened \in BOOLEAN :
          IF ~is_device
          THEN Return("InvalidArgument: not a writable character device")
          ELSE IF new_options.name_size > UINPUT_MAX_NAME_SIZE
          THEN Return("InvalidArgument: name too long")
          ELSE IF ~opened
          THEN Return("Errno: Open user input device failed")
          ELSE upc' = "phys" /\ fd_' = "open" /\ UNCHANGED status
    /\ UNCHANGED <<api, devices, excluded_event_types, options, new_options,
                   requests, etype_idx, prop_idx, pending, capabilities_,
                   device_>>
    /\ UNCHANGED <<codecVars, eventVars, discoveryVars, ffVars, capVars,
               restVars>>

\* Create: ioctl(fd, UI_SET_PHYS, phys), then on to the properties or, when
\* there are none, to the first EnableEventCodes.
SetPhys ==
    /\ upc = "phys"
    /\ \E ok \in BOOLEAN :
          /\ requests' = Append(requests, Request("UI_SET_PHYS", "phys", ok))
          /\ IF ~ok
             THEN /\ Return("Errno: Setting physical path failed")
                  /\ UNCHANGED <<etype_idx, prop_idx>>
             ELSE /\ upc' = IF Len(new_options.input_props) > 0
                            THEN "props" ELSE "enable_type"
                  /\ prop_idx' = 1
                  /\ etype_idx' = 1
                  /\ UNCHANGED <<status, fd_>>
    /\ UNCHANGED <<api, devices, excluded_event_types, options, new_options,
                   pending, capabilities_, device_>>
    /\ UNCHANGED <<codecVars, eventVars, discoveryVars, ffVars, capVars,
               restVars>>

\* Create: ioctl(fd, UI_SET_PROPBIT, prop.code) for the next property.
SetProp ==
    /\ upc = "props"
    /\ \E ok \in BOOLEAN :
          /\ requests' = Append(requests,
                 Request("UI_SET_PROPBIT", new_options.input_props[prop_idx],
                         ok))
          /\ IF ~ok
             THEN /\ Return("Errno: Setting property failed")
                  /\ UNCHANGED prop_idx
             ELSE /\ upc' = IF prop_idx < Len(new_options.input_props)
                            THEN "props" ELSE "enable_type"
                  /\ prop_idx' = prop_idx + 1
                  /\ UNCHANGED <<status, fd_>>
    /\ UNCHANGED <<api, devices, excluded_event_types, options, new_options,
                   etype_idx, pending, capabilities_, device_>>
    /\ UNCHANGED <<codecVars, eventVars, discoveryVars, ffVars, capVars,
               restVars>>

\* Create after an EnableEventCodes call returned OkStatus: the next call,
\* or, after the last, result.capabilities_ = options.capabilities and into
\* Setup, whose loop over the absolute axes is skipped when there are none.
EnableReturnsOk ==
    IF etype_idx < Len(EnableOrder)
    THEN /\ upc' = "enable_type"
         /\ etype_idx' = etype_idx + 1
         /\ pending' = {}
         /\ UNCHANGED <<status, fd_, capabilities_>>
    ELSE /\ capabilities_' = new_options.capabilities
         /\ pending' = DOMAIN new_options.capabilities.absolute_axes
         /\ upc' = IF DOMAIN new_options.capabilities.absolute_axes = {}
                   THEN "dev_setup" ELSE "abs_setup"
         /\ UNCHANGED <<status, fd_, etype_idx>>

\* EnableEventCodes up to its loop: the switch on etype and
\* ioctl(fd, UI_SET_EVBIT, etype).
EnableEventType ==
    /\ upc = "enable_type"
    /\ LET etype == EnableOrder[etype_idx] IN
       IF RequestOf(etype) = None
       THEN /\ Return("InvalidArgument: Unsupported event type")
            /\ UNCHANGED <<requests, etype_idx, pending, capabilities_>>
       ELSE \E ok \in BOOLEAN :
          /\ requests' = Append(requests, Request("UI_SET_EVBIT", etype, ok))
          /\ IF ~ok
             THEN /\ Return("Errno: Failed to enable event type")
                  /\ UNCHANGED <<etype_idx, pending, capabilities_>>
             ELSE IF CodesOf(new_options.capabilities, etype) # {}
             THEN /\ upc' = "enable_code"
                  /\ pending' = CodesOf(new_options.capabilities, etype)
                  /\ UNCHANGED <<status, fd_, etype_idx, capabilities_>>
             ELSE EnableReturnsOk
    /\ UNCHANGED <<api, devices, excluded_event_types, options, new_options,
                   prop_idx, device_>>
    /\ UNCHANGED <<codecVars, eventVars, discoveryVars, ffVars, capVars,
               restVars>>

\* EnableEventCodes, one round of its loop: ioctl(fd, req, ev_code).  The
\* hash container yields its codes in an order of its own.
EnableEventCode ==
    /\ upc = "enable_code"
    /\ \E code \in pending, ok \in BOOLEAN :
          /\ requests' = Append(requests,
                 Request(RequestOf(EnableOrder[etype_idx]), code, ok))
          /\ IF ~ok
             THEN /\ Return("Errno: Failed to enable event code")
                  /\ UNCHANGED <<etype_idx, pending, capabilities_>>
             ELSE IF pending # {code}
             THEN /\ pending' = pending \ {code}
                  /\ UNCHANGED <<upc, status, fd_, etype_idx, capabilities_>>
             ELSE EnableReturnsOk
    /\ UNCHANGED <<api, devices, excluded_event_types, options, new_options,
                   prop_idx, device_>>
    /\ UNCHANGED <<codecVars, eventVars, discoveryVars, ffVars, capVars,
               restVars>>

\* Setup, one round of its loop: ioctl(fd, UI_ABS_SETUP, &abs_setup).
AbsSetup ==
    /\ upc = "abs_setup"
    /\ \E code \in pending, ok \in BOOLEAN :
          /\ requests' = Append(requests,
                 Request("UI_ABS_SETUP",
                         [code |-> code,
                          absinfo |-> capabilities_.absolute_axes[code]], ok))
          /\ IF ~ok
             THEN /\ Return("Errno: Failed to setup absolute axis")
                  /\ UNCHANGED pending
             ELSE /\ pending' = pending \ {code}
                  /\ upc' = IF pending = {code} THEN "dev_setup"
                            ELSE "abs_setup"
                  /\ UNCHANGED <<status, fd_>>
    /\ UNCHANGED <<api, devices, excluded_event_types, options, new_options,
                   etype_idx, prop_idx, capabilities_, device_>>
    /\ UNCHANGED <<codecVars, eventVars, discoveryVars, ffVars, capVars,
               restVars>>

\* Setup whose status Create does not look at.
DevSetupUnchecked ==
    /\ upc = "dev_setup"
    /\ \E ok \in BOOLEAN :
          requests' = Append(requests,
              Request("UI_DEV_SETUP",
                      [ff_effects_max |-> CastU32(new_options.max_effects)],
                      ok))
    /\ upc' = "dev_create"
    /\ UNCHANGED <<api, devices, excluded_event_types, options, new_options,
                   status, fd_, etype_idx, prop_idx, pending, capabilities_,
                   device_>>
    /\ UNCHANGED <<codecVars, eventVars, discoveryVars, ffVars, capVars,
               restVars>>

\* Setup(options.max_effects): ioctl(fd, UI_DEV_SETUP, &usetup).
DevSetup ==
    /\ upc = "dev_setup"
    /\ \E ok \in BOOLEAN :
          /\ requests' = Append(requests,
                 Request("UI_DEV_SETUP",
                         [ff_effects_max |-> CastU32(new_options.max_effects)],
                         ok))
          /\ IF ~ok
             THEN Return("Errno: Failed to setup user device info")
             ELSE upc' = "dev_create" /\ UNCHANGED <<status, fd_>>
    /\ UNCHANGED <<api, devices, excluded_event_types, options, new_options,
                   etype_idx, prop_idx, pending, capabilities_, device_>>
    /\ UNCHANGED <<codecVars, eventVars, discoveryVars, ffVars, capVars,
               restVars>>

\* Create: ioctl(fd, UI_DEV_CREATE).
DevCreate ==
    /\ upc = "dev_create"
    /\ \E ok \in BOOLEAN :
          /\ requests' = Append(requests, Request("UI_DEV_CREATE", 0, ok))
          /\ IF ~ok
             THEN Return("Errno: Failed to create user input device")
             ELSE upc' = "find" /\ UNCHANGED <<status, fd_>>
    /\ UNCHANGED <<api, devices, excluded_event_types, options, new_options,
                   etype_idx, prop_idx, pending, capabilities_, device_>>
    /\ UNCHANGED <<codecVars, eventVars, discoveryVars, ffVars, capVars,
               restVars>>

\* Create: FindDevice(fd, name) as a whole.  It returns an opened device or
\* an error, and Create returns the UserInputDevice either way; or a
\* std::filesystem::directory_iterator throws and Create is left by the
\* exception.
FindDevice ==
    /\ upc = "find"
    /\ \E outcome \in {"found", "absent", "throws"} :
          IF outcome = "throws"
          THEN Return("exception: filesystem_error") /\ UNCHANGED device_
          ELSE /\ device_' = outcome
               /\ upc' = "done"
               /\ status' = "OK"
               /\ UNCHANGED fd_
    /\ UNCHANGED <<api, devices, excluded_event_types, options, new_options,
                   requests, etype_idx, prop_idx, pending, capabilities_>>
    /\ UNCHANGED <<codecVars, eventVars, discoveryVars, ffVars, capVars,
               restVars>>

CreateNext ==
    \/ CallCreate
    \/ CreateFromDevices
    \/ CreateOpen
    \/ SetPhys
    \/ SetProp
    \/ EnableEventType
    \/ EnableEventCode
    \/ AbsSetup
    \/ DevSetup
    \/ DevCreate
    \/ FindDevice

(***************************************************************************)
(* Discovery of the created device: FindDevice, FindDeviceLinux and        *)
(* FindDeviceFallback, one step per system call or wait.                   *)
(***************************************************************************)

\* The size of the buffer InputDevice::Open reads the name into.
kNameBufferSize == 256

\* The number of passes of the retry loop of FindDeviceLinux.
kRetries == 19

\* The length of every wait of the discovery, in milliseconds.
kSleepMs == 100

\* "event"
EventPrefix == <<101, 118, 101, 110, 116>>

\* std::isdigit(c) != 0
IsDigit(c) == c \in 48..57

\* dev_basename.substr(0, 5) == "event"
HasEventPrefix(basename) ==
    SubSeq(basename, 1, Min(5, Len(basename))) = EventPrefix

\* The test of both strategies: the prefix "event" and only digits after it.
IsEventNode(basename) ==
    /\ HasEventPrefix(basename)
    /\ \A i \in 6..Len(basename) : IsDigit(basename[i])

\* operator< of std::string, which std::sort uses.
RECURSIVE LexLess(_, _)
LexLess(a, b) ==
    IF b = <<>> THEN FALSE
    ELSE IF a = <<>> THEN TRUE
    ELSE IF a[1] # b[1] THEN a[1] < b[1]
    ELSE LexLess(Tail(a), Tail(b))

\* std::sort(candidate_devices.begin(), candidate_devices.end()): the paths
\* share the directory, so their order is the order of the base names.
RECURSIVE SortNodes(_)
SortNodes(nodes) ==
    IF nodes = {} THEN <<>>
    ELSE LET least == CHOOSE n \in nodes :
                          \A m \in nodes \ {n} : LexLess(n.basename, m.basename)
         IN  <<least>> \o SortNodes(nodes \ {least})

\* find('\\0') of a std::string: the index, from 0, of its first NUL, or
\* its size when there is none (for c_str(), the terminator behind the
\* last byte).
FindNul(buffer) ==
    IF \E i \in 1..Len(buffer) : buffer[i] = NUL
    THEN (CHOOSE i \in 1..Len(buffer) :
              /\ buffer[i] = NUL
              /\ \A j \in 1..(i - 1) : buffer[j] # NUL) - 1
    ELSE Len(buffer)

\* name_.c_str() as strncpy reads it: the bytes before the first NUL.
CStr(str) == SubSeq(str, 1, FindNul(str))

\* strncpy(usetup.name, name_.c_str(), sizeof(usetup.name) - 1): the name the
\* kernel gives the created device.
KernelName(name_) ==
    LET c == CStr(name_)
    IN  SubSeq(c, 1, Min(Len(c), UINPUT_MAX_NAME_SIZE - 1))

\* InputDevice::Open: the buffer of 256 NUL bytes, EVIOCGNAME writes the
\* name of the node into it, and name_.erase(name_.find('\0') + 1) keeps the
\* bytes up to and including the first NUL.
OpenName(kernel_name) ==
    LET buffer == [i \in 1..kNameBufferSize |->
                       IF i <= Len(kernel_name) THEN kernel_name[i] ELSE NUL]
    IN  SubSeq(buffer, 1, FindNul(buffer) + 1)

\* A node of /dev/input: its base name, whether list_devices' is_device
\* accepts it, and the name the kernel reports for it.
Node(basename, is_device, kernel_name) ==
    [basename |-> basename, is_device |-> is_device, name |-> kernel_name]

Event2 == EventPrefix \o <<50>>
Event3 == EventPrefix \o <<51>>
Event10 == EventPrefix \o <<49, 48>>
EventsAll == EventPrefix \o <<115, 95, 97, 108, 108>>
Mouse0 == <<109, 111, 117, 115, 101, 48>>
KbdName == <<107, 98, 100>>

\* What /dev/input may hold after the device with the kernel name `created`
\* was created: the directory is a set of nodes, or it cannot be read.
DevDirSamples(created) ==
    {[exists |-> FALSE, nodes |-> {}],
     [exists |-> TRUE, nodes |-> {}],
     [exists |-> TRUE,
      nodes |-> {Node(Event2, TRUE, KbdName), Node(Event10, TRUE, created),
                 Node(Event3, TRUE, KbdName)}],
     [exists |-> TRUE,
      nodes |-> {Node(Event2, TRUE, created), Node(Event10, TRUE, created)}],
     [exists |-> TRUE,
      nodes |-> {Node(EventsAll, TRUE, created),
                 Node(EventPrefix, TRUE, created),
                 Node(Mouse0, TRUE, created)}],
     [exists |-> TRUE,
      nodes |-> {Node(Event10, FALSE, created), Node(Event2, TRUE, KbdName)}]}

\* What /sys/devices/virtual/input/<sysname> may hold: the base names of its
\* entries, or the directory cannot be read.
SysfsSamples ==
    {[exists |-> FALSE, entries |-> {}],
     [exists |-> TRUE, entries |-> {}],
     [exists |-> TRUE, entries |-> {Mouse0, EventsAll}],
     [exists |-> TRUE, entries |-> {Event10, Mouse0}],
     [exists |-> TRUE, entries |-> {Event2, Event3}]}

\* list_devices("/dev/input"): the entries whose name starts with "event"
\* and that is_device accepts.
list_devices(dir) ==
    {n \in dir.nodes : HasEventPrefix(n.basename) /\ n.is_device}

\* The entries of the discovery log.
Ioctl(req, ok) == [op |-> "ioctl", req |-> req, ok |-> ok]
Scan(dir) == [op |-> "scan", dir |-> dir]
Open(path, ok) == [op |-> "open", path |-> path, ok |-> ok]
SleepFor(ms) == [op |-> "sleep", ms |-> ms]

\* The InputDevice that InputDevice::Open(path) returns.
InputDevice(path, kernel_name) ==
    [path |-> path, name |-> OpenName(kernel_name)]

\* What Create leaves alone while FindDevice runs.
DiscoveryFrame ==
    /\ UNCHANGED <<api, devices, excluded_event_types, options, new_options,
                   requests, etype_idx, prop_idx, pending, capabilities_>>
    /\ UNCHANGED <<codecVars, eventVars, ffVars, capVars,
               restVars>>

\* A FindDevice that goes on to the fallback after a device was opened.
ReturnDeviceAndGoOn(dev) ==
    /\ found_dev' = dev
    /\ device_' = "found"
    /\ upc' = "fallback"
    /\ UNCHANGED <<status, fd_>>

\* FindDevice returns the device: Create moves it into device_ and returns
\* the UserInputDevice.
ReturnDevice(dev) ==
    /\ found_dev' = dev
    /\ device_' = "found"
    /\ upc' = "done"
    /\ status' = "OK"
    /\ UNCHANGED fd_

\* FindDevice returns an error: Create returns the UserInputDevice without
\* a device_.
ReturnNotFound ==
    /\ device_' = "absent"
    /\ upc' = "done"
    /\ status' = "OK"
    /\ UNCHANGED <<fd_, found_dev>>

\* A directory_iterator throws std::filesystem::filesystem_error: nothing
\* catches it, FindDevice and Create are left by the exception and the
\* UserInputDevice under construction is destroyed.
Throw ==
    /\ Return("exception: filesystem_error")
    /\ UNCHANGED <<device_, found_dev>>

\* FindDevice: ioctl(fd, UI_GET_SYSNAME(sizeof(sysname)), &sysname).
GetSysname ==
    /\ upc = "find"
    /\ \E ok \in BOOLEAN :
          /\ dlog' = Append(dlog, Ioctl("UI_GET_SYSNAME", ok))
          /\ upc' = IF ok THEN "scan" ELSE "fallback"
    /\ UNCHANGED <<status, fd_, device_>>
    /\ UNCHANGED <<device_path, attempt, candidate_devices, cand_idx,
                   found_dev>>
    /\ DiscoveryFrame

\* FindDeviceLinux: the scan of the sysfs directory for an entry named
\* event[0-9]*, and the NotFound return when there is none.
ScanSysfs ==
    /\ upc = "scan"
    /\ \E dir \in SysfsSamples :
          /\ dlog' = Append(dlog, Scan("sysfs"))
          /\ IF ~dir.exists
             THEN Throw /\ UNCHANGED <<device_path, attempt>>
             ELSE LET matches == {e \in dir.entries : IsEventNode(e)}
                  IN  IF matches = {}
                      THEN /\ upc' = "fallback"
                           /\ UNCHANGED <<device_path, attempt, status, fd_,
                                          device_, found_dev>>
                      ELSE /\ \E e \in matches : device_path' = e
                           /\ attempt' = 0
                           /\ upc' = IF 0 < kRetries THEN "open" ELSE "last"
                           /\ UNCHANGED <<status, fd_, device_, found_dev>>
    /\ UNCHANGED <<candidate_devices, cand_idx>>
    /\ DiscoveryFrame

\* A retry loop that goes back to the system-name lookup after a failed
\* open and a wait.
OpenAttemptResolving ==
    /\ upc = "open"
    /\ attempt < kRetries
    /\ \E ok \in BOOLEAN :
          IF ok
          THEN /\ dlog' = Append(dlog, Open(device_path, TRUE))
               /\ ReturnDevice(InputDevice(device_path,
                                           KernelName(new_options.name)))
               /\ UNCHANGED attempt
          ELSE /\ dlog' = dlog \o <<Open(device_path, FALSE),
                                    SleepFor(kSleepMs)>>
               /\ attempt' = attempt + 1
               /\ upc' = "find"
               /\ UNCHANGED <<status, fd_, device_, found_dev>>
    /\ UNCHANGED <<device_path, candidate_devices, cand_idx>>
    /\ DiscoveryFrame

\* FindDeviceLinux: one pass of the retry loop: InputDevice::Open, and on
\* failure a wait of 100 ms and ++attempt.
OpenAttempt ==
    /\ upc = "open"
    /\ attempt < kRetries
    /\ \E ok \in BOOLEAN :
          IF ok
          THEN /\ dlog' = Append(dlog, Open(device_path, TRUE))
               /\ ReturnDevice(InputDevice(device_path,
                                           KernelName(new_options.name)))
               /\ UNCHANGED attempt
          ELSE /\ dlog' = dlog \o <<Open(device_path, FALSE),
                                    SleepFor(kSleepMs)>>
               /\ attempt' = attempt + 1
               /\ upc' = IF attempt + 1 < kRetries THEN "open" ELSE "last"
               /\ UNCHANGED <<status, fd_, device_, found_dev>>
    /\ UNCHANGED <<device_path, candidate_devices, cand_idx>>
    /\ DiscoveryFrame

\* FindDeviceLinux: the last attempt, after the loop.  Its error makes
\* FindDevice go on to the fallback.
LastAttempt ==
    /\ upc = "last"
    /\ \E ok \in BOOLEAN :
          /\ dlog' = Append(dlog, Open(device_path, ok))
          /\ IF ok
             THEN ReturnDevice(InputDevice(device_path,
                                           KernelName(new_options.name)))
             ELSE /\ upc' = "fallback"
                  /\ UNCHANGED <<status, fd_, device_, found_dev>>
    /\ UNCHANGED <<device_path, attempt, candidate_devices, cand_idx>>
    /\ DiscoveryFrame

\* FindDeviceFallback up to its loop: the wait of 100 ms, list_devices, the
\* filter on event[0-9]* and the sort.
FallbackList ==
    /\ upc = "fallback"
    /\ \E dir \in DevDirSamples(KernelName(new_options.name)) :
          /\ dlog' = dlog \o <<SleepFor(kSleepMs), Scan("/dev/input")>>
          /\ IF ~dir.exists
             THEN Throw /\ UNCHANGED <<candidate_devices, cand_idx>>
             ELSE LET candidates ==
                          SortNodes({n \in list_devices(dir) :
                                         IsEventNode(n.basename)})
                  IN  /\ candidate_devices' = candidates
                      /\ cand_idx' = 1
                      /\ IF candidates = <<>>
                         THEN ReturnNotFound
                         ELSE /\ upc' = "candidates"
                              /\ UNCHANGED <<status, fd_, device_, found_dev>>
    /\ UNCHANGED <<device_path, attempt>>
    /\ DiscoveryFrame

\* A loop over the candidates that opens a candidate again when its open
\* failed.
OpenCandidateRetrying ==
    /\ upc = "candidates"
    /\ cand_idx <= Len(candidate_devices)
    /\ LET node == candidate_devices[cand_idx]
           dev == InputDevice(node.basename, node.name)
       IN  \E ok \in BOOLEAN :
              /\ dlog' = Append(dlog, Open(node.basename, ok))
              /\ IF ok /\ dev.name = new_options.name
                 THEN ReturnDevice(dev) /\ UNCHANGED cand_idx
                 ELSE /\ cand_idx' = IF ok THEN cand_idx + 1 ELSE cand_idx
                      /\ IF ok /\ cand_idx = Len(candidate_devices)
                         THEN ReturnNotFound
                         ELSE UNCHANGED <<upc, status, fd_, device_,
                                          found_dev>>
    /\ UNCHANGED <<device_path, attempt, candidate_devices>>
    /\ DiscoveryFrame

\* FindDeviceFallback: one pass of the loop over the candidates:
\* InputDevice::Open(dev_path) and dev_or->Name() == ui_name; after the last
\* candidate, the NotFound return.
OpenCandidate ==
    /\ upc = "candidates"
    /\ cand_idx <= Len(candidate_devices)
    /\ LET node == candidate_devices[cand_idx]
           dev == InputDevice(node.basename, node.name)
       IN  \E ok \in BOOLEAN :
              /\ dlog' = Append(dlog, Open(node.basename, ok))
              /\ IF ok /\ dev.name = new_options.name
                 THEN ReturnDevice(dev) /\ UNCHANGED cand_idx
                 ELSE /\ cand_idx' = cand_idx + 1
                      /\ IF cand_idx = Len(candidate_devices)
                         THEN ReturnNotFound
                         ELSE UNCHANGED <<upc, status, fd_, device_,
                                          found_dev>>
    /\ UNCHANGED <<device_path, attempt, candidate_devices>>
    /\ DiscoveryFrame

\* Create(options) with the discovery in steps.
DiscoveryNext ==
    \/ CallCreate
    \/ CreateOpen
    \/ SetPhys
    \/ SetProp
    \/ EnableEventType
    \/ EnableEventCode
    \/ AbsSetup
    \/ DevSetup
    \/ DevCreate
    \/ GetSysname
    \/ ScanSysfs
    \/ OpenAttempt
    \/ LastAttempt
    \/ FallbackList
    \/ OpenCandidate

(***************************************************************************)
(* The force-feedback handshakes of a created device: the kernel holds a   *)
(* pending upload or erase request and has sent an EV_UINPUT event whose   *)
(* value is the request's id; the caller answers with BeginUpload and      *)
(* EndUpload, or BeginErase and EndErase.                                  *)
(***************************************************************************)

\* The largest id the kernel gives a request here.
MaxRequestId == 1

RequestIds == 0..MaxRequestId

\* An ff_effect as the kernel holds it, of type tag `type`: every common
\* field and every field of the union member of the tag.  s is a signed and
\* u an unsigned 16-bit value, m1 and m2 are 16-bit counts of milliseconds.
WireEnvelope(u, m1, m2) ==
    [attack_length |-> m1, attack_level |-> u,
     fade_length |-> m2, fade_level |-> OtherU16(u)]

WireCondition(s, u) ==
    [right_saturation |-> u, left_saturation |-> OtherU16(u),
     right_coeff |-> s, left_coeff |-> OtherS16(s),
     deadband |-> OtherU16(u), center |-> s]

WireUnion(type, s, u, m1, m2) ==
    CASE type \in {kConstant, kInertia} ->
           [member |-> "constant", level |-> s,
            envelope |-> WireEnvelope(u, m1, m2)]
      [] type = kRamp ->
           [member |-> "ramp", start_level |-> s, end_level |-> OtherS16(s),
            envelope |-> WireEnvelope(u, m1, m2)]
      [] type \in {kSpring, kDamper, kFriction} ->
           [member |-> "condition",
            condition |-> [i \in 1..2 |->
                IF i = 1 THEN WireCondition(s, u)
                         ELSE WireCondition(OtherS16(s), OtherU16(u))]]
      [] type \in {kPeriodic, kCustom} ->
           [member |-> "periodic",
            waveform |-> IF type = kCustom THEN kCustom ELSE kSine,
            period |-> m2, magnitude |-> s, offset |-> OtherS16(s),
            phase |-> u, envelope |-> WireEnvelope(u, m1, m2),
            custom_len |-> IF type = kCustom THEN 2 ELSE 0,
            custom_data |-> IF type = kCustom THEN "buf" ELSE "nullptr"]
      [] type = kRumble ->
           [member |-> "rumble", strong_magnitude |-> u,
            weak_magnitude |-> OtherU16(u)]
      [] OTHER -> [member |-> None]

WireEffect(type, s, u, m1, m2) ==
    [type |-> type, id |-> s, direction |-> u,
     trigger |-> [button |-> OtherU16(u), interval |-> m1],
     replay |-> [length |-> m2, delay |-> m1],
     u |-> WireUnion(type, s, u, m1, m2)]

\* The type tags AnyEffect::FromData recognizes.
RecognizedTags ==
    {kConstant, kPeriodic, kRamp, kSpring, kFriction, kDamper, kRumble,
     kInertia, kCustom}

\* The effects a client uploads, and the zeroed record the kernel hands out
\* when the upload replaces no effect.
WireSamples ==
    {WireEffect(t, -32768, 65535, 65535, 1) : t \in RecognizedTags}
    \cup {WireEffect(t, 3, 32767, 0, 40000) : t \in RecognizedTags}
    \cup {ZeroData}

\* The return codes the caller chooses: accept, and -EINVAL.
RetvalSamples == {0, -22}

FfIdle ==
    /\ ff_request = NoValue
    /\ ff_event = NoValue
    /\ upload = NoValue
    /\ erase = NoValue
    /\ ff_ioctls = <<>>
    /\ ff_status = None
    /\ fpc = "idle"

CapIdle ==
    /\ self = NoValue
    /\ min = NoValue
    /\ has_result = None
    /\ hpc = "idle"
    /\ first_min = NoValue
    /\ first_result = None

\* uinput_ff_upload upload{} and uinput_ff_erase erase{}.
ZeroUpload ==
    [request_id |-> 0, retval |-> 0, effect |-> ZeroData, old |-> ZeroData]
ZeroErase == [request_id |-> 0, retval |-> 0, effect_id |-> 0]

\* A request issued on the descriptor: the structure handed to the kernel
\* and the structure as the kernel left it.
FfIoctl(req, arg, ok, out) ==
    [req |-> req, arg |-> arg, ok |-> ok, out |-> out]

\* The kernel finds the pending request of the id in arg, of the given kind.
KernelFinds(arg, code) ==
    /\ ff_request # NoValue
    /\ ff_request.pending
    /\ ff_request.id = arg.request_id
    /\ ff_request.code = code

\* The kernel's answer to UI_BEGIN_FF_UPLOAD: the return code cleared and
\* both effects of the request copied out.
KernelBeginUpload(arg) ==
    [arg EXCEPT !.retval = 0, !.effect = ff_request.effect,
                !.old = ff_request.old]

\* The kernel's answer to UI_BEGIN_FF_ERASE: the return code cleared and the
\* id of the effect to erase copied out.
KernelBeginErase(arg) ==
    [arg EXCEPT !.retval = 0, !.effect_id = ff_request.effect_id]

\* The kernel completes its request with the return code of arg.
KernelEnd(arg) ==
    [ff_request EXCEPT !.pending = FALSE, !.retval = arg.retval]

\* What the handshake leaves alone.
FfFrame == UNCHANGED <<codecVars, eventVars, createVars, discoveryVars, capVars,
               restVars>>

\* A client uploads an effect: the kernel queues the request and the caller
\* reads the event UI_FF_UPLOAD whose value is the request's id.
SubmitUpload ==
    /\ fpc = "start"
    /\ \E id \in RequestIds, e \in WireSamples, o \in WireSamples :
          /\ e.type \in RecognizedTags
          /\ o = ZeroData \/ (o.type = e.type /\ o # e)
          /\ ff_request' = [id |-> id, code |-> "UI_FF_UPLOAD", pending |-> TRUE,
                            retval |-> 0, effect |-> e, old |-> o]
          /\ ff_event' = [code |-> "UI_FF_UPLOAD", value |-> id]
    /\ fpc' = "event"
    /\ UNCHANGED <<upload, erase, ff_ioctls, ff_status>>
    /\ FfFrame

\* A client erases an effect: the kernel queues the request and the caller
\* reads the event UI_FF_ERASE whose value is the request's id.
SubmitErase ==
    /\ fpc = "start"
    /\ \E id \in RequestIds, effect_id \in {0, 5, 95} :
          /\ ff_request' = [id |-> id, code |-> "UI_FF_ERASE", pending |-> TRUE,
                            retval |-> 0, effect_id |-> effect_id]
          /\ ff_event' = [code |-> "UI_FF_ERASE", value |-> id]
    /\ fpc' = "event"
    /\ UNCHANGED <<upload, erase, ff_ioctls, ff_status>>
    /\ FfFrame

\* The UInputUpload BeginUpload builds from the structure the kernel filled.
UploadResult(out) ==
    [request_id |-> out.request_id, retval |-> out.retval,
     effect |-> FromData(out.effect), old |-> FromData(out.old)]

\* BeginUpload(event.value)
BeginUpload ==
    /\ fpc = "event"
    /\ ff_event.code = "UI_FF_UPLOAD"
    /\ LET arg == [ZeroUpload EXCEPT !.request_id = ff_event.value]
       IN  \E accepted \in BOOLEAN :
              IF accepted /\ KernelFinds(arg, "UI_FF_UPLOAD")
              THEN /\ ff_ioctls' = Append(ff_ioctls,
                        FfIoctl("UI_BEGIN_FF_UPLOAD", arg, TRUE,
                                KernelBeginUpload(arg)))
                   /\ upload' = UploadResult(KernelBeginUpload(arg))
                   /\ ff_status' = "OK"
                   /\ fpc' = "upload_begun"
              ELSE /\ ff_ioctls' = Append(ff_ioctls,
                        FfIoctl("UI_BEGIN_FF_UPLOAD", arg, FALSE, arg))
                   /\ ff_status' = "Errno: Failed to begin uinput upload."
                   /\ fpc' = "done"
                   /\ UNCHANGED upload
    /\ UNCHANGED <<ff_request, ff_event, erase>>
    /\ FfFrame

\* The caller sets the return code of the upload (upload_or->retval = 0).
SetUploadRetval ==
    /\ fpc = "upload_begun"
    /\ \E retval \in RetvalSamples : upload' = [upload EXCEPT !.retval = retval]
    /\ fpc' = "upload_answered"
    /\ UNCHANGED <<ff_request, ff_event, erase, ff_ioctls, ff_status>>
    /\ FfFrame

\* A to_upload that carries neither the caller's return code nor the
\* effects.
ToUploadEmpty(up) == [ZeroUpload EXCEPT !.request_id = up.request_id]

\* EndUpload: the uinput_ff_upload it builds from the UInputUpload.
ToUpload(up) ==
    [request_id |-> up.request_id, retval |-> up.retval,
     effect |-> ToData(up.effect, ZeroData), old |-> ToData(up.old, ZeroData)]

\* EndUpload(*upload_or)
EndUpload ==
    /\ fpc = "upload_answered"
    /\ LET arg == ToUpload(upload)
       IN  \E accepted \in BOOLEAN :
              IF accepted /\ KernelFinds(arg, "UI_FF_UPLOAD")
              THEN /\ ff_ioctls' = Append(ff_ioctls,
                        FfIoctl("UI_END_FF_UPLOAD", arg, TRUE, arg))
                   /\ ff_request' = KernelEnd(arg)
                   /\ ff_status' = "OK"
              ELSE /\ ff_ioctls' = Append(ff_ioctls,
                        FfIoctl("UI_END_FF_UPLOAD", arg, FALSE, arg))
                   /\ ff_status' = "Errno: Failed to end uinput upload."
                   /\ UNCHANGED ff_request
    /\ fpc' = "done"
    /\ UNCHANGED <<ff_event, upload, erase>>
    /\ FfFrame

\* BeginErase(event.value): the argument goes into effect_id, request_id
\* stays 0.
BeginErase ==
    /\ fpc = "event"
    /\ ff_event.code = "UI_FF_ERASE"
    /\ LET arg == [ZeroErase EXCEPT !.effect_id = ff_event.value]
       IN  \E accepted \in BOOLEAN :
              IF accepted /\ KernelFinds(arg, "UI_FF_ERASE")
              THEN /\ ff_ioctls' = Append(ff_ioctls,
                        FfIoctl("UI_BEGIN_FF_ERASE", arg, TRUE,
                                KernelBeginErase(arg)))
                   /\ erase' = KernelBeginErase(arg)
                   /\ ff_status' = "OK"
                   /\ fpc' = "erase_begun"
              ELSE /\ ff_ioctls' = Append(ff_ioctls,
                        FfIoctl("UI_BEGIN_FF_ERASE", arg, FALSE, arg))
                   /\ ff_status' = "Errno: Failed to begin uinput erase."
                   /\ fpc' = "done"
                   /\ UNCHANGED erase
    /\ UNCHANGED <<ff_request, ff_event, upload>>
    /\ FfFrame

\* The caller sets the return code of the erase (erase_or->retval = 0).
SetEraseRetval ==
    /\ fpc = "erase_begun"
    /\ \E retval \in RetvalSamples : erase' = [erase EXCEPT !.retval = retval]
    /\ fpc' = "erase_answered"
    /\ UNCHANGED <<ff_request, ff_event, upload, ff_ioctls, ff_status>>
    /\ FfFrame

\* EndErase(*erase_or): the request it issues is UI_BEGIN_FF_ERASE, which
\* the kernel answers as in BeginErase; the request stays pending.
EndErase ==
    /\ fpc = "erase_answered"
    /\ LET arg == [request_id |-> erase.request_id, retval |-> erase.retval,
                   effect_id |-> erase.effect_id]
       IN  \E accepted \in BOOLEAN :
              IF accepted /\ KernelFinds(arg, "UI_FF_ERASE")
              THEN /\ ff_ioctls' = Append(ff_ioctls,
                        FfIoctl("UI_BEGIN_FF_ERASE", arg, TRUE,
                                KernelBeginErase(arg)))
                   /\ ff_status' = "OK"
              ELSE /\ ff_ioctls' = Append(ff_ioctls,
                        FfIoctl("UI_BEGIN_FF_ERASE", arg, FALSE, arg))
                   /\ ff_status' = "Errno: Failed to end uinput erase."
    /\ fpc' = "done"
    /\ UNCHANGED <<ff_request, ff_event, upload, erase>>
    /\ FfFrame

HandshakeNext ==
    \/ SubmitUpload
    \/ SubmitErase
    \/ BeginUpload
    \/ SetUploadRetval
    \/ EndUpload
    \/ BeginErase
    \/ SetEraseRetval
    \/ EndErase

(***************************************************************************)
(* CapabilitiesInfo::HasCapabilities                                       *)
(***************************************************************************)

\* A test that one element of the subset suffices.
ContainsAny(superset, subset) ==
    subset = {} \/ \E elem \in subset : elem \in superset

\* ContainsAll on two flat_hash_set: superset.contains(elem) for every
\* element of subset.
ContainsAll(superset, subset) ==
    \A elem \in subset : elem \in superset

\* A test of the axes that also compares the AbsInfo of every entry.
ContainsAllEntries(superset, subset) ==
    \A key \in DOMAIN subset :
        key \in DOMAIN superset /\ superset[key] = subset[key]

\* ContainsAll on two flat_hash_map: superset.contains(elem.first) for every
\* entry of subset.
ContainsAllKeys(superset, subset) ==
    \A key \in DOMAIN subset : key \in DOMAIN superset

\* this->HasCapabilities(min_caps)
HasCapabilities(this, min_caps) ==
    /\ ContainsAll(this.keys, min_caps.keys)
    /\ ContainsAll(this.synchs, min_caps.synchs)
    /\ ContainsAll(this.relative_axes, min_caps.relative_axes)
    /\ ContainsAllKeys(this.absolute_axes, min_caps.absolute_axes)
    /\ ContainsAll(this.miscs, min_caps.miscs)
    /\ ContainsAll(this.switches, min_caps.switches)
    /\ ContainsAll(this.leds, min_caps.leds)
    /\ ContainsAll(this.sounds, min_caps.sounds)
    /\ ContainsAll(this.autorepeats, min_caps.autorepeats)
    /\ ContainsAll(this.force_feedbacks, min_caps.force_feedbacks)
    /\ ContainsAll(this.uinputs, min_caps.uinputs)

\* The ten categories held as sets of codes.
SetCategories ==
    {"keys", "synchs", "relative_axes", "miscs", "switches", "leds",
     "sounds", "autorepeats", "force_feedbacks", "uinputs"}

\* Capabilities with the code 1 in every category.
OneOfEach ==
    [c \in DOMAIN CapabilitiesInfo |->
        IF c = "absolute_axes" THEN [k \in {1} |-> StickAxis] ELSE {1}]

\* Capabilities to compare: none, one code in every category, one further
\* code in one category, one category emptied, and axes that differ in the
\* keys or only in the AbsInfo of a key.
CapabilitySamples ==
    {CapabilitiesInfo, OneOfEach, AllKeys}
    \cup {[OneOfEach EXCEPT ![c] = {1, 2}] : c \in SetCategories}
    \cup {[OneOfEach EXCEPT ![c] = {}] : c \in SetCategories}
    \cup {[OneOfEach EXCEPT !.absolute_axes = [k \in {1} |-> WheelAxis]],
          [OneOfEach EXCEPT !.absolute_axes =
              [k \in {1, 2} |-> IF k = 1 THEN StickAxis ELSE WheelAxis]],
          [OneOfEach EXCEPT !.absolute_axes = NoAxes]}

CapFrame ==
    UNCHANGED <<codecVars, eventVars, createVars, discoveryVars, ffVars,
                restVars>>

\* The caller has two CapabilitiesInfo and calls self.HasCapabilities(min).
CallHasCapabilities ==
    /\ hpc = "start"
    /\ \E s \in CapabilitySamples, m \in CapabilitySamples :
          self' = s /\ min' = m
    /\ hpc' = "called"
    /\ UNCHANGED <<has_result, first_min, first_result>>
    /\ CapFrame

\* HasCapabilities returns; it is const and takes min_caps by const
\* reference.
ReturnHasCapabilities ==
    /\ hpc = "called"
    /\ has_result' = HasCapabilities(self, min)
    /\ hpc' = "returned"
    /\ UNCHANGED <<self, min, first_min, first_result>>
    /\ CapFrame

CapNext == CallHasCapabilities \/ ReturnHasCapabilities

\* The caller keeps the argument and the result of the call and calls
\* self.HasCapabilities again, with another argument.
CallHasCapabilitiesAgain ==
    /\ hpc = "returned"
    /\ \E m \in CapabilitySamples : min' = m
    /\ first_min' = min
    /\ first_result' = has_result
    /\ hpc' = "called_again"
    /\ UNCHANGED <<self, has_result>>
    /\ CapFrame

\* The second call returns.
ReturnHasCapabilitiesAgain ==
    /\ hpc = "called_again"
    /\ has_result' = HasCapabilities(self, min)
    /\ hpc' = "returned_again"
    /\ UNCHANGED <<self, min, first_min, first_result>>
    /\ CapFrame

CapOrderNext ==
    \/ CallHasCapabilities
    \/ ReturnHasCapabilities
    \/ CallHasCapabilitiesAgain
    \/ ReturnHasCapabilitiesAgain

(***************************************************************************)
(* The capability query (device.cc): IsBitSet and GetCapabilities.         *)
(***************************************************************************)

KEY_MAX == 767

\* std::array<std::uint8_t, EV_MAX / 8 + 1> and
\* std::array<std::uint8_t, KEY_MAX / 8 + 1>: the bytes of the two bitmaps.
EvBitsSize == EV_MAX \div 8 + 1
CodeBitsSize == KEY_MAX \div 8 + 1

\* The value bit number n adds to its byte when it is one of bits.
BitValue(bits, n) == IF n \in bits THEN 2 ^ (n % 8) ELSE 0

\* The bytes the kernel writes for a set of bit numbers into a buffer of
\* size bytes; the buffer was zero before and a bit beyond it is not written.
KernelBitmap(bits, size) ==
    [i \in 0 .. size - 1 |->
        BitValue(bits, 8 * i) + BitValue(bits, 8 * i + 1)
        + BitValue(bits, 8 * i + 2) + BitValue(bits, 8 * i + 3)
        + BitValue(bits, 8 * i + 4) + BitValue(bits, 8 * i + 5)
        + BitValue(bits, 8 * i + 6) + BitValue(bits, 8 * i + 7)]

\* (bitmask[bit / 8] & (1 << (bit % 8))) != 0
IsBitSet(bitmask, bit) == (bitmask[bit \div 8] \div (2 ^ (bit % 8))) % 2 # 0

\* A test that reads the bit one place higher.
IsNextBitSet(bitmask, bit) ==
    bit + 1 < 8 * Cardinality(DOMAIN bitmask) /\ IsBitSet(bitmask, bit + 1)

\* The member of CapabilitiesInfo the switch of GetCapabilities inserts the
\* codes of an event type into; EV_PWR and the default insert nothing.
MemberOfType(type) ==
    CASE type = EV_ABS -> "absolute_axes"
      [] type = EV_SYN -> "synchs"
      [] type = EV_KEY -> "keys"
      [] type = EV_REL -> "relative_axes"
      [] type = EV_MSC -> "miscs"
      [] type = EV_SW -> "switches"
      [] type = EV_LED -> "leds"
      [] type = EV_SND -> "sounds"
      [] type = EV_REP -> "autorepeats"
      [] type \in {EV_FF_STATUS, EV_FF} -> "force_feedbacks"
      [] OTHER -> None

\* What the kernel answers to EVIOCGBIT(type, len): for type 0 the bitmap of
\* the event types, for another type the bitmap of its codes.
EVIOCGBIT(dev, type) ==
    IF type = 0 THEN dev.types
    ELSE IF type \in DOMAIN dev.codes THEN dev.codes[type] ELSE {}

\* A device the kernel holds: the event types, the codes of every type and
\* the input_absinfo of every axis.
KernelDevice(types, codes, axes) ==
    [variant |-> "kernel", types |-> types, codes |-> codes, axes |-> axes]

\* A pad with keys, a button, the unassigned key code 84, the key code
\* KEY_MAX, two axes and two force-feedback codes.
KernelPad ==
    KernelDevice({EV_SYN, EV_KEY, EV_ABS, EV_FF},
        [t \in {EV_KEY, EV_ABS, EV_FF} |->
            CASE t = EV_KEY -> {1, 84, 272, KEY_MAX}
              [] t = EV_ABS -> {0, 1}
              [] t = EV_FF -> {84, 85}],
        [c \in {0, 1} |-> IF c = 0 THEN StickAxis ELSE WheelAxis])

\* A device of the other categories, with the types EV_PWR and EV_MAX.
KernelPanel ==
    KernelDevice(
        {EV_SYN, EV_REL, EV_MSC, EV_SW, EV_LED, EV_SND, EV_REP, EV_PWR,
         EV_FF_STATUS, EV_MAX},
        [t \in {EV_REL, EV_MSC, EV_SW, EV_LED, EV_SND, EV_REP, EV_PWR,
                EV_FF_STATUS, EV_MAX} |->
            IF t \in {EV_PWR, EV_MAX} THEN {0} ELSE {0, 1}],
        NoAxes)

\* A device that reports no event type.
KernelBare == KernelDevice({}, <<>>, NoAxes)

KernelSamples == {KernelPad, KernelPanel, KernelBare}

QueryIdle ==
    /\ kdev = NoValue
    /\ qpc = "idle"
    /\ ev_bits = NoValue
    /\ q_ev_type = 0
    /\ q_capabilities = NoValue
    /\ query_ioctls = <<>>
    /\ query_status = None

WaitIdle ==
    /\ wait_timeout = None
    /\ poll_timeout = None
    /\ elapsed = 0
    /\ readable = FALSE
    /\ wait_result = None
    /\ wpc = "idle"

ValueIdle ==
    /\ value_this = NoValue
    /\ value_rhs = NoValue
    /\ value_this0 = NoValue
    /\ value_rhs0 = NoValue
    /\ value_op = "idle"

GrabIdle ==
    /\ grabbed = {}
    /\ scoped_grabs = <<>>
    /\ grab_ioctls = <<>>
    /\ grab_calls = <<>>

RestIdle == QueryIdle /\ WaitIdle /\ ValueIdle /\ GrabIdle

QueryFrame ==
    UNCHANGED <<codecVars, eventVars, createVars, discoveryVars, ffVars,
                capVars, waitVars, valueVars, grabVars>>

\* GetCapabilities(fd) up to its loop: EVIOCGBIT(0, sizeof(ev_bits)); a
\* failure returns ErrnoToStatus.
QueryEventTypes ==
    /\ qpc = "start"
    /\ \E dev \in KernelSamples, ok \in BOOLEAN :
          /\ kdev' = dev
          /\ query_ioctls' = <<Request("EVIOCGBIT", 0, ok)>>
          /\ IF ok
                THEN /\ ev_bits' = KernelBitmap(EVIOCGBIT(dev, 0), EvBitsSize)
                     /\ q_capabilities' = CapabilitiesInfo
                     /\ qpc' = "types"
                     /\ query_status' = None
                ELSE /\ ev_bits' = KernelBitmap({}, EvBitsSize)
                     /\ q_capabilities' = NoValue
                     /\ qpc' = "done"
                     /\ query_status' = "error"
    /\ UNCHANGED q_ev_type
    /\ QueryFrame

\* The codes the inner loop of GetCapabilities visits in a bitmap:
\* for (ev_code = 0; ev_code < KEY_MAX; ++ev_code) with IsBitSet.
VisitedCodes(code_bits) ==
    {ev_code \in 0 .. KEY_MAX - 1 : IsBitSet(code_bits, ev_code)}

\* A loop that reads, for every code, the bit of the next code.
ShiftedCodes(code_bits) ==
    {ev_code \in 0 .. KEY_MAX - 1 : IsNextBitSet(code_bits, ev_code)}

\* The inner loop on the codes of one type: every visited code is inserted
\* into the member of its type; an axis is emplaced with the input_absinfo
\* of the kernel unless its EVIOCGABS failed.
InsertVisited(caps, dev, type, code_bits, failed_axes) ==
    LET member == MemberOfType(type)
        codes == VisitedCodes(code_bits)
    IN  IF member = None THEN caps
        ELSE IF member = "absolute_axes"
        THEN [caps EXCEPT !.absolute_axes =
                 [c \in (DOMAIN @) \cup (codes \ failed_axes) |->
                     IF c \in DOMAIN @ THEN @[c] ELSE dev.axes[c]]]
        ELSE [caps EXCEPT ![member] = @ \cup codes]

\* The EVIOCGABS requests of the inner loop, in the order of the codes.
AbsRequests(codes, failed_axes) ==
    LET visited == {c \in codes : c < KEY_MAX}
    IN  [i \in 1 .. Cardinality(visited) |->
            LET c == CHOOSE x \in visited :
                         Cardinality({y \in visited : y < x}) = i - 1
            IN  Request("EVIOCGABS", c, c \notin failed_axes)]

\* One pass of the loop over the event types with a type whose bit is
\* clear.
QuerySkipType ==
    /\ qpc = "types"
    /\ q_ev_type < EV_MAX
    /\ ~IsBitSet(ev_bits, q_ev_type)
    /\ q_ev_type' = q_ev_type + 1
    /\ UNCHANGED <<kdev, qpc, ev_bits, q_capabilities, query_ioctls,
                   query_status>>
    /\ QueryFrame

\* One pass of the loop with a type whose bit is set:
\* EVIOCGBIT(q_ev_type, sizeof(code_bits)), on a failure continue, else the
\* inner loop over the codes.
QueryCodes ==
    /\ qpc = "types"
    /\ q_ev_type < EV_MAX
    /\ IsBitSet(ev_bits, q_ev_type)
    /\ \E ok \in BOOLEAN :
          IF ok
          THEN LET code_bits ==
                       KernelBitmap(EVIOCGBIT(kdev, q_ev_type), CodeBitsSize)
                   axes == IF q_ev_type = EV_ABS
                              THEN VisitedCodes(code_bits) ELSE {}
               IN  \E failed_axes \in SUBSET axes :
                      /\ q_capabilities' =
                             InsertVisited(q_capabilities, kdev, q_ev_type,
                                           code_bits, failed_axes)
                      /\ query_ioctls' =
                             Append(query_ioctls,
                                    Request("EVIOCGBIT", q_ev_type, TRUE))
                             \o AbsRequests(axes, failed_axes)
          ELSE /\ q_capabilities' = q_capabilities
               /\ query_ioctls' =
                      Append(query_ioctls, Request("EVIOCGBIT", q_ev_type, FALSE))
    /\ q_ev_type' = q_ev_type + 1
    /\ UNCHANGED <<kdev, qpc, ev_bits, query_status>>
    /\ QueryFrame

\* The loop over the event types ends: return q_capabilities.
QueryReturn ==
    /\ qpc = "types"
    /\ ~(q_ev_type < EV_MAX)
    /\ qpc' = "done"
    /\ query_status' = "ok"
    /\ UNCHANGED <<kdev, ev_bits, q_ev_type, q_capabilities, query_ioctls>>
    /\ QueryFrame

QueryNext == QueryEventTypes \/ QuerySkipType \/ QueryCodes \/ QueryReturn

(***************************************************************************)
(* AnyEffect::FromData on the records a kernel or a client hands over.     *)
(***************************************************************************)

\* Values of a type field that are no effect type: 0, the numbers next to
\* the effect types, the waveform FF_SQUARE, kMax and the highest __u16.
UnknownTags == {0, 79, kSquare, 94, kMax, 65535}

\* A signed and an unsigned 16-bit value and two counts of milliseconds.
WireValues ==
    {<<-32768, 65535, 65535, 1>>, <<3, 32767, 0, 40000>>,
     <<-1, 0, 1, 65535>>, <<32767, 1, 500, 2>>}

\* Records of every recognized tag, and records of an unrecognized tag
\* whose union holds the bytes of a rumble or of a constant effect, or
\* zeroes.
FromDataSamples ==
    {WireEffect(t, v[1], v[2], v[3], v[4]) :
        t \in RecognizedTags, v \in WireValues}
    \cup {[WireEffect(shape, v[1], v[2], v[3], v[4]) EXCEPT !.type = t] :
            t \in UnknownTags, shape \in {kRumble, kConstant},
            v \in {<<-32768, 65535, 65535, 1>>, <<3, 32767, 0, 40000>>}}
    \cup {ZeroData}

\* A caller holds an ff_effect record.
ReceiveRecord ==
    /\ cpc = "wire"
    /\ \E d \in FromDataSamples : data' = d
    /\ cpc' = "encoded"
    /\ UNCHANGED <<effect, decoded>>
    /\ UNCHANGED <<eventVars, createVars, discoveryVars, ffVars, capVars,
                   restVars>>

WireNext == ReceiveRecord \/ Decode

\* AnyEffect::FromData is called on a record.
InitWire ==
    /\ effect = NoValue
    /\ data = NoValue
    /\ decoded = NoValue
    /\ cpc = "wire"
    /\ EventIdle
    /\ CreateIdle
    /\ DiscoveryIdle
    /\ FfIdle
    /\ CapIdle
    /\ RestIdle

SpecWire == InitWire /\ [][WireNext]_vars

(***************************************************************************)
(* EventIO::Wait (eventio.cc): one call of poll on the descriptor.         *)
(***************************************************************************)

\* The milliseconds of the clock the model follows a call for.
MaxElapsed == 6

\* The timeouts a caller hands over, in microseconds: none, half a
\* millisecond, one, nearly two, two, three and four milliseconds, five seconds,
\* and two negative durations.
TimeoutSamples ==
    {0, 500, 1000, 1999, 2000, 3000, 4000, 5000000, -1000, -1}

\* static_cast<int>: every count of milliseconds of the samples is in the
\* range of int and keeps its value.
CastInt(n) == n

\* The third argument of poll:
\* std::min(1, static_cast<int>(absl::ToInt64Milliseconds(timeout)))
PollTimeout(timeout) == Min(1, CastInt(ToInt64Milliseconds(timeout)))

WaitFrame ==
    UNCHANGED <<codecVars, eventVars, createVars, discoveryVars, ffVars,
                capVars, queryVars, valueVars, grabVars>>

\* Wait(timeout) is called and enters poll; an event may be pending.
CallWait ==
    /\ wpc = "start"
    /\ \E timeout \in TimeoutSamples, pending_event \in BOOLEAN :
          /\ wait_timeout' = timeout
          /\ poll_timeout' = PollTimeout(timeout)
          /\ readable' = pending_event
    /\ wpc' = "polling"
    /\ UNCHANGED <<elapsed, wait_result>>
    /\ WaitFrame

\* A millisecond passes in poll: nothing is readable and the timeout of
\* poll, if it is not negative, has not run out.
PollBlocks ==
    /\ wpc = "polling"
    /\ ~readable
    /\ poll_timeout < 0 \/ elapsed < poll_timeout
    /\ elapsed < MaxElapsed
    /\ elapsed' = elapsed + 1
    /\ UNCHANGED <<wait_timeout, poll_timeout, readable, wait_result, wpc>>
    /\ WaitFrame

\* The device queues an event.
EventArrives ==
    /\ wpc = "polling"
    /\ ~readable
    /\ readable' = TRUE
    /\ UNCHANGED <<wait_timeout, poll_timeout, elapsed, wait_result, wpc>>
    /\ WaitFrame

\* poll returns 1 and Wait returns (poll_res != 0).
PollReady ==
    /\ wpc = "polling"
    /\ readable
    /\ wait_result' = "true"
    /\ wpc' = "returned"
    /\ UNCHANGED <<wait_timeout, poll_timeout, elapsed, readable>>
    /\ WaitFrame

\* The timeout of poll ran out: poll returns 0 and Wait returns false.
PollTimesOut ==
    /\ wpc = "polling"
    /\ ~readable
    /\ poll_timeout >= 0
    /\ elapsed >= poll_timeout
    /\ wait_result' = "false"
    /\ wpc' = "returned"
    /\ UNCHANGED <<wait_timeout, poll_timeout, elapsed, readable>>
    /\ WaitFrame

\* poll returns -1 and Wait returns ErrnoToStatus.
PollFails ==
    /\ wpc = "polling"
    /\ wait_result' = "error"
    /\ wpc' = "returned"
    /\ UNCHANGED <<wait_timeout, poll_timeout, elapsed, readable>>
    /\ WaitFrame

WaitNext ==
    \/ CallWait
    \/ PollBlocks
    \/ EventArrives
    \/ PollReady
    \/ PollTimesOut
    \/ PollFails

\* Wait is called on an open descriptor.
InitWait ==
    /\ wait_timeout = None
    /\ poll_timeout = None
    /\ elapsed = 0
    /\ readable = FALSE
    /\ wait_result = None
    /\ wpc = "start"
    /\ CodecIdle
    /\ EventIdle
    /\ CreateIdle
    /\ DiscoveryIdle
    /\ FfIdle
    /\ CapIdle
    /\ QueryIdle
    /\ ValueIdle
    /\ GrabIdle

SpecWait == InitWait /\ [][WaitNext]_vars

(***************************************************************************)
(* Copies and moves of the tagged unions AnyInputEvent (events.h) and      *)
(* AnyEffect (info.h).  An object is the record of the class that is live  *)
(* in its union.                                                           *)
(***************************************************************************)

InputEventMembers == {"variant", "timestamp", "type", "code", "value"}
EffectMembers == {"variant", "id", "direction", "trigger", "replay"}

\* Whether a class is one of the event classes.
IsEventClass(variant) ==
    variant = "InputEvent" \/ \E i \in DOMAIN CatEvents : CatEvents[i] = variant

\* The data members of each class, with those of its bases.
MembersOf(variant) ==
    CASE variant = "InputEvent" -> InputEventMembers
      [] variant = "KeyEvent" ->
           InputEventMembers \cup {"state", "key", "button"}
      [] IsEventClass(variant) -> InputEventMembers \cup {"categorized"}
      [] variant = "Effect" -> EffectMembers
      [] variant \in ConstantLike -> EffectMembers \cup {"level", "envelope"}
      [] variant = "RampEffect" ->
           EffectMembers \cup {"start_level", "end_level", "envelope"}
      [] variant \in ConditionLike -> EffectMembers \cup {"conditions"}
      [] variant \in PeriodicLike ->
           EffectMembers \cup
           {"waveform", "period", "magnitude", "offset", "phase", "envelope",
            "custom_len", "custom_data"}
      [] variant = "RumbleEffect" ->
           EffectMembers \cup {"strong_magnitude", "weak_magnitude"}

\* The base class of the union an object lives in.
BaseClass(obj) == IF IsEventClass(obj.variant) THEN "InputEvent" ELSE "Effect"

\* data_{.base = rhs}: the copy constructor of the base class applied to an
\* object of any class.
CopyBase(obj) ==
    [f \in MembersOf(BaseClass(obj)) |->
        IF f = "variant" THEN BaseClass(obj) ELSE obj[f]]

\* A CloneInplace that every class inherits from the base class:
\* new (ptr) InputEvent(*this), new (ptr) Effect(*this).
CloneBaseInplace(obj) == CopyBase(obj)

\* The virtual CloneInplace, overridden in every class: new (ptr) V(*this)
\* with V the class of the object, its implicit copy constructor copying
\* every member.
CloneInplace(obj) == [f \in MembersOf(obj.variant) |-> obj[f]]

\* AnyInputEvent(const InputEvent& rhs) and AnyEffect(const Effect& rhs):
\* the base is copied, destroyed, and the clone is built in its place.
ConstructAny(rhs_base) ==
    LET base == CopyBase(rhs_base) IN CloneInplace(rhs_base)

\* operator=(const Any&): on self-assignment nothing, else the live object
\* is destroyed and the clone of rhs built in its place.
AssignAny(this_obj, rhs_obj, same_object) ==
    IF same_object THEN this_obj ELSE CloneInplace(rhs_obj)

\* AnyInputEvent objects: what Categorize makes of some raw records.
ValueEventSamples ==
    {Categorize("CheckEventType", InputEvent(1700000000, ty, c, 2)) :
        ty \in {EV_KEY, EV_REL, EV_FF_STATUS}, c \in {1, 84, 195, 272}}

\* AnyEffect objects: one effect of every class.
ValueEffectSamples == {MakeEffect(v, -1, 32767, 1999, 0) : v \in Variants}

ValueFrame ==
    UNCHANGED <<codecVars, eventVars, createVars, discoveryVars, ffVars,
                capVars, queryVars, waitVars, grabVars>>

\* Two objects of one of the unions exist.
MakeObjects ==
    /\ value_op = "start"
    /\ \E samples \in {ValueEventSamples, ValueEffectSamples} :
          \E a \in samples, b \in samples :
              value_this' = a /\ value_rhs' = b
    /\ value_op' = "made"
    /\ UNCHANGED <<value_this0, value_rhs0>>
    /\ ValueFrame

\* Any(const Any& rhs) : Any(rhs.Base()); a new object is constructed.
CopyConstruct ==
    /\ value_op = "made"
    /\ value_this' = ConstructAny(value_rhs)
    /\ value_this0' = NoValue
    /\ value_rhs0' = value_rhs
    /\ value_op' = "copy-construct"
    /\ UNCHANGED value_rhs
    /\ ValueFrame

\* Any& operator=(const Any& rhs)
CopyAssign ==
    /\ value_op = "made"
    /\ value_this' = AssignAny(value_this, value_rhs, FALSE)
    /\ value_this0' = value_this
    /\ value_rhs0' = value_rhs
    /\ value_op' = "copy-assign"
    /\ UNCHANGED value_rhs
    /\ ValueFrame

\* Any(Any&& rhs) : Any(rhs.Base()); rhs is read, not written.
MoveConstruct ==
    /\ value_op = "made"
    /\ value_this' = ConstructAny(value_rhs)
    /\ value_this0' = NoValue
    /\ value_rhs0' = value_rhs
    /\ value_op' = "move-construct"
    /\ UNCHANGED value_rhs
    /\ ValueFrame

\* Any& operator=(Any&& rhs): return *this = static_cast<const Any&>(rhs)
MoveAssign ==
    /\ value_op = "made"
    /\ value_this' = AssignAny(value_this, value_rhs, FALSE)
    /\ value_this0' = value_this
    /\ value_rhs0' = value_rhs
    /\ value_op' = "move-assign"
    /\ UNCHANGED value_rhs
    /\ ValueFrame

\* x = x and x = std::move(x): both reach if (this == &rhs) return *this.
SelfAssign ==
    /\ value_op = "made"
    /\ \E op \in {"self-copy-assign", "self-move-assign"} : value_op' = op
    /\ value_this' = AssignAny(value_this, value_this, TRUE)
    /\ value_this0' = value_this
    /\ value_rhs0' = value_rhs
    /\ UNCHANGED value_rhs
    /\ ValueFrame

ValueNext ==
    \/ MakeObjects
    \/ CopyConstruct
    \/ CopyAssign
    \/ MoveConstruct
    \/ MoveAssign
    \/ SelfAssign

\* Objects of the unions are copied, moved and assigned.
InitValue ==
    /\ value_this = NoValue
    /\ value_rhs = NoValue
    /\ value_this0 = NoValue
    /\ value_rhs0 = NoValue
    /\ value_op = "start"
    /\ CodecIdle
    /\ EventIdle
    /\ CreateIdle
    /\ DiscoveryIdle
    /\ FfIdle
    /\ CapIdle
    /\ QueryIdle
    /\ WaitIdle
    /\ GrabIdle

SpecValue == InitValue /\ [][ValueNext]_vars

(***************************************************************************)
(* InputDevice::ScopedGrab and GrabInScope (device.h), Grab and Ungrab     *)
(* (device.cc).                                                            *)
(***************************************************************************)

\* The ScopedGrab objects a run has room for and the calls it makes.
MaxObjects == 3
MaxGrabCalls == 5

nullptr == "nullptr"

\* The InputDevice objects of the caller.
GrabDevices == {"event2", "event3"}

Slots == 1 .. MaxObjects

\* A ScopedGrab object; storage that holds none yet, or none any more.
ScopedGrab(parent_) == [life |-> "alive", parent |-> parent_]
NoObject == [life |-> "free", parent |-> nullptr]
Destroyed == [life |-> "destroyed", parent |-> nullptr]

\* A moved-from object that keeps its parent.
MovedFromKeeping(obj) == obj

\* What the move constructor leaves of rhs: rhs.parent = nullptr.
MovedFrom(obj) == [obj EXCEPT !.parent = nullptr]

\* VarTempIOCTL(fd_.Fd(), EVIOCGRAB, arg) on a device.
GrabIoctl(dev, arg, ok) == [dev |-> dev, arg |-> arg, ok |-> ok]

\* ~ScopedGrab(): Ungrab on the parent unless it is nullptr; the kernel
\* releases a device that is grabbed and fails on one that is not.
DestructorIoctls(obj, held) ==
    IF obj.parent # nullptr
        THEN <<GrabIoctl(obj.parent, 0, obj.parent \in held)>>
        ELSE <<>>

\* The devices grabbed after the destructor of obj.
HeldAfter(obj, held) ==
    IF obj.parent # nullptr THEN held \ {obj.parent} ELSE held

GrabFrame ==
    UNCHANGED <<codecVars, eventVars, createVars, discoveryVars, ffVars,
                capVars, queryVars, waitVars, valueVars>>

\* dev.GrabInScope(): Grab(); on a failure the status is returned, else
\* ScopedGrab(this) is moved into the StatusOr and the temporary destroyed.
\* The kernel refuses to grab a device that is grabbed.
GrabInScope ==
    /\ Len(grab_calls) < MaxGrabCalls
    /\ \E dev \in GrabDevices, slot \in Slots, ok \in BOOLEAN :
          /\ scoped_grabs[slot].life = "free"
          /\ ok => dev \notin grabbed
          /\ IF ok
                THEN LET temporary == ScopedGrab(dev)
                         result == ScopedGrab(temporary.parent)
                         moved == MovedFrom(temporary)
                         held == grabbed \cup {dev}
                     IN  /\ scoped_grabs' =
                                [scoped_grabs EXCEPT ![slot] = result]
                         /\ grab_ioctls' =
                                Append(grab_ioctls, GrabIoctl(dev, 1, TRUE))
                                \o DestructorIoctls(moved, held)
                         /\ grabbed' = HeldAfter(moved, held)
                ELSE /\ scoped_grabs' = scoped_grabs
                     /\ grab_ioctls' =
                            Append(grab_ioctls, GrabIoctl(dev, 1, FALSE))
                     /\ grabbed' = grabbed
          /\ grab_calls' =
                 Append(grab_calls,
                        [op |-> "GrabInScope", dev |-> dev, ok |-> ok])
    /\ GrabFrame

\* ScopedGrab to{std::move(from)}
MoveConstructGrab ==
    /\ Len(grab_calls) < MaxGrabCalls
    /\ \E from \in Slots, to \in Slots :
          /\ scoped_grabs[from].life = "alive"
          /\ scoped_grabs[to].life = "free"
          /\ scoped_grabs' =
                 [scoped_grabs EXCEPT
                     ![to] = ScopedGrab(scoped_grabs[from].parent),
                     ![from] = MovedFrom(scoped_grabs[from])]
          /\ grab_calls' =
                 Append(grab_calls,
                        [op |-> "move-construct",
                         parent |-> scoped_grabs[from].parent])
    /\ UNCHANGED <<grabbed, grab_ioctls>>
    /\ GrabFrame

\* to = std::move(from), from possibly to itself: tmp takes the parent of
\* *this, *this takes the parent of rhs, rhs is left with nullptr, and tmp
\* is destroyed on return.
MoveAssignGrab ==
    /\ Len(grab_calls) < MaxGrabCalls
    /\ \E from \in Slots, to \in Slots :
          /\ scoped_grabs[from].life = "alive"
          /\ scoped_grabs[to].life = "alive"
          /\ LET tmp == ScopedGrab(scoped_grabs[to].parent)
                 emptied ==
                     [scoped_grabs EXCEPT ![to] = MovedFrom(scoped_grabs[to])]
                 rhs == emptied[from]
                 assigned ==
                     [emptied EXCEPT ![to] = [@ EXCEPT !.parent = rhs.parent]]
             IN  /\ scoped_grabs' =
                        [assigned EXCEPT ![from] = MovedFrom(assigned[from])]
                 /\ grab_ioctls' =
                        grab_ioctls \o DestructorIoctls(tmp, grabbed)
                 /\ grabbed' = HeldAfter(tmp, grabbed)
                 /\ grab_calls' =
                        Append(grab_calls,
                               [op |-> "move-assign", parent |-> rhs.parent,
                                released |-> tmp.parent])
    /\ GrabFrame

\* An object goes out of scope.
DestroyGrab ==
    /\ Len(grab_calls) < MaxGrabCalls
    /\ \E slot \in Slots :
          /\ scoped_grabs[slot].life = "alive"
          /\ scoped_grabs' = [scoped_grabs EXCEPT ![slot] = Destroyed]
          /\ grab_ioctls' =
                 grab_ioctls \o DestructorIoctls(scoped_grabs[slot], grabbed)
          /\ grabbed' = HeldAfter(scoped_grabs[slot], grabbed)
          /\ grab_calls' =
                 Append(grab_calls,
                        [op |-> "destroy",
                         parent |-> scoped_grabs[slot].parent])
    /\ GrabFrame

GrabNext ==
    \/ GrabInScope
    \/ MoveConstructGrab
    \/ MoveAssignGrab
    \/ DestroyGrab

\* The caller has devices and storage for ScopedGrab objects.
InitGrab ==
    /\ grabbed = {}
    /\ scoped_grabs = [slot \in Slots |-> NoObject]
    /\ grab_ioctls = <<>>
    /\ grab_calls = <<>>
    /\ CodecIdle
    /\ EventIdle
    /\ CreateIdle
    /\ DiscoveryIdle
    /\ FfIdle
    /\ CapIdle
    /\ QueryIdle
    /\ WaitIdle
    /\ ValueIdle

SpecGrab == InitGrab /\ [][GrabNext]_vars

(***************************************************************************)
(* Specifications: one subsystem runs, the others stay idle.               *)
(***************************************************************************)

\* An effect is encoded and decoded again.
InitCodec ==
    /\ effect \in EffectSamples
    /\ data = NoValue
    /\ decoded = NoValue
    /\ cpc = "start"
    /\ EventIdle
    /\ CreateIdle
    /\ DiscoveryIdle
    /\ FfIdle
    /\ CapIdle
    /\ RestIdle

SpecCodec == InitCodec /\ [][CodecNext]_vars

\* A raw record is wrapped in an AnyInputEvent (AnyInputEvent{raw}) and
\* categorized.
InitEvents ==
    /\ impl \in Builds
    /\ raw \in RawSamples
    /\ any_ev = raw
    /\ first = NoValue
    /\ recat = NoValue
    /\ ncalls = 0
    /\ CodecIdle
    /\ CreateIdle
    /\ DiscoveryIdle
    /\ FfIdle
    /\ CapIdle
    /\ RestIdle

SpecEvents == InitEvents /\ [][EventNext]_vars

\* No device is provisioned yet: a caller is about to call Create or
\* CreateFromDevices.
InitCreate ==
    /\ api = None
    /\ devices = <<>>
    /\ excluded_event_types = {}
    /\ options = NoValue
    /\ new_options = NoValue
    /\ upc = "start"
    /\ status = None
    /\ requests = <<>>
    /\ etype_idx = 0
    /\ prop_idx = 0
    /\ pending = {}
    /\ capabilities_ = NoValue
    /\ device_ = None
    /\ fd_ = None
    /\ DiscoveryIdle
    /\ FfIdle
    /\ CapIdle
    /\ CodecIdle
    /\ EventIdle
    /\ RestIdle

SpecCreate == InitCreate /\ [][CreateNext]_vars

\* HasCapabilities is called on two CapabilitiesInfo.
InitCapabilities ==
    /\ self = NoValue
    /\ min = NoValue
    /\ has_result = None
    /\ hpc = "start"
    /\ first_min = NoValue
    /\ first_result = None
    /\ CodecIdle
    /\ EventIdle
    /\ CreateIdle
    /\ DiscoveryIdle
    /\ FfIdle
    /\ RestIdle

SpecCapabilities == InitCapabilities /\ [][CapNext]_vars

\* HasCapabilities is called twice on one CapabilitiesInfo.
SpecCapabilityOrder == InitCapabilities /\ [][CapOrderNext]_vars

\* A created device answers one upload or erase request of the kernel.
InitHandshake ==
    /\ ff_request = NoValue
    /\ ff_event = NoValue
    /\ upload = NoValue
    /\ erase = NoValue
    /\ ff_ioctls = <<>>
    /\ ff_status = None
    /\ fpc = "start"
    /\ CodecIdle
    /\ EventIdle
    /\ CreateIdle
    /\ DiscoveryIdle
    /\ CapIdle
    /\ RestIdle

SpecHandshake == InitHandshake /\ [][HandshakeNext]_vars

\* GetCapabilities is called on the descriptor of an opened device.
InitQuery ==
    /\ kdev = NoValue
    /\ qpc = "start"
    /\ ev_bits = NoValue
    /\ q_ev_type = 0
    /\ q_capabilities = NoValue
    /\ query_ioctls = <<>>
    /\ query_status = None
    /\ CodecIdle
    /\ EventIdle
    /\ CreateIdle
    /\ DiscoveryIdle
    /\ FfIdle
    /\ CapIdle
    /\ WaitIdle
    /\ ValueIdle
    /\ GrabIdle

SpecQuery == InitQuery /\ [][QueryNext]_vars

\* Create(options) is called and the discovery of the created device runs
\* in steps.
SpecDiscovery == InitCreate /\ [][DiscoveryNext]_vars

\* The steps of FindDevice: the thread that called Create runs on, and every
\* system call and wait returns.
DiscoverySteps ==
    \/ GetSysname
    \/ ScanSysfs
    \/ OpenAttempt
    \/ LastAttempt
    \/ FallbackList
    \/ OpenCandidate

SpecDiscoveryFair == SpecDiscovery /\ WF_vars(DiscoverySteps)

(***************************************************************************)
(* Properties of the effect codec                                          *)
(***************************************************************************)

HasEnvelope(e) ==
    e.variant \in ConstantLike \cup {"RampEffect"} \cup PeriodicLike

\* The duration fields of an effect.
Durations(e) ==
    {e.trigger.interval, e.replay.length, e.replay.delay}
    \cup (IF HasEnvelope(e)
          THEN {e.envelope.attack_length, e.envelope.fade_length} ELSE {})
    \cup (IF e.variant \in PeriodicLike THEN {e.period} ELSE {})

\* A duration the record can hold: 0 ms to 65535 ms (and a fraction).
ValidDuration(d) == 0 <= d /\ d < 65536000
ValidEffect(e) == \A d \in Durations(e) : ValidDuration(d)

\* A duration without its part below one millisecond.
WholeMilliseconds(d) == d - (d % 1000)

TruncateCommon(e) ==
    [e EXCEPT !.trigger.interval = WholeMilliseconds(@),
              !.replay.length = WholeMilliseconds(@),
              !.replay.delay = WholeMilliseconds(@)]

TruncateEnvelope(e) ==
    IF HasEnvelope(e)
    THEN [e EXCEPT !.envelope.attack_length = WholeMilliseconds(@),
                   !.envelope.fade_length = WholeMilliseconds(@)]
    ELSE e

TruncatePeriod(e) ==
    IF e.variant \in PeriodicLike
    THEN [e EXCEPT !.period = WholeMilliseconds(@)]
    ELSE e

ExpectedRoundTrip(e) == TruncatePeriod(TruncateEnvelope(TruncateCommon(e)))

\* C1: for every effect class and all field values the record can hold,
\* FromData(ToData(e)) is an effect of the same class with every field equal
\* to e's, except that each duration is cut to whole milliseconds, toward
\* zero.
C1_RoundTrip ==
    (cpc = "decoded" /\ ValidEffect(effect))
        => decoded = ExpectedRoundTrip(effect)

\* C1 witness: a periodic effect whose period has a fraction of a
\* millisecond went through the codec and came back without it.
C1_Witness ==
    /\ cpc = "decoded"
    /\ ValidEffect(effect)
    /\ effect.variant = "PeriodicEffect"
    /\ effect.period = 1999
    /\ decoded.period = 1000
    /\ decoded.magnitude = effect.magnitude

(***************************************************************************)
(* Properties of the categorization                                        *)
(***************************************************************************)

Categorized == ncalls >= 1

\* The code table of a class: for KeyEvent the key and the button table.
InTable(cat, code) ==
    IF cat = "KeyEvent" THEN code \in KeyTable \cup ButtonTable
    ELSE code \in CodeToString(cat)

CatIndexes == 1..Len(CatEvents)

\* C2: for every class T and every raw record whose declared type is T's
\* expected event type and whose code is in T's table, Categorize returns
\* class T with its resolved code set.
C2_TypedPassAuthoritative ==
    Categorized =>
        \A i \in CatIndexes :
            (raw.type = ExpectedEventType(CatEvents[i])
             /\ InTable(CatEvents[i], raw.code))
                => (first = Construct(CatEvents[i], raw) /\ IsInCategory(first))

\* C3: a raw record of type Key with a known key code becomes a KeyEvent with
\* key set and button unset; with a known button code, a KeyEvent with button
\* set and key unset.
C3_KeyButton ==
    (Categorized /\ raw.type = EV_KEY) =>
        /\ raw.code \in KeyTable =>
              (first.variant = "KeyEvent" /\ first.key = raw.code
               /\ first.button = kUncategorizedCode)
        /\ raw.code \in ButtonTable =>
              (first.variant = "KeyEvent" /\ first.button = raw.code
               /\ first.key = kUncategorizedCode)

\* C3 witness: a button press was categorized.
C3_Witness ==
    /\ Categorized
    /\ raw.type = EV_KEY
    /\ raw.code \in ButtonTable
    /\ first.variant = "KeyEvent"
    /\ first.state = "kDown"

InNoTable(code) == \A i \in CatIndexes : ~InTable(CatEvents[i], code)

C5_FallbackFirstMatch ==
    (Categorized /\ ~IsInCategory(CategorizeImpl(impl, TRUE, raw))) =>
        \A i \in CatIndexes :
            (InTable(CatEvents[i], raw.code)
             /\ \A j \in 1..(i - 1) : ~InTable(CatEvents[j], raw.code))
                => first = Construct(CatEvents[i], raw)

C7_TotalAndFrame ==
    Categorized =>
        /\ Base(first) = raw
        /\ (first.variant = "InputEvent") <=> InNoTable(raw.code)
        /\ first.variant # "InputEvent" => IsInCategory(first)

(***************************************************************************)
(* Properties of the provisioning                                          *)
(***************************************************************************)

FromDevices == api = "CreateFromDevices"

Sources == 1..Len(devices)

\* The categories held as sets of codes, with their event types.
CodeSetCategories ==
    {<<"keys", EV_KEY>>, <<"synchs", EV_SYN>>, <<"relative_axes", EV_REL>>,
     <<"miscs", EV_MSC>>, <<"switches", EV_SW>>, <<"leds", EV_LED>>,
     <<"sounds", EV_SND>>, <<"autorepeats", EV_REP>>,
     <<"force_feedbacks", EV_FF>>, <<"uinputs", EV_UINPUT>>}

SourceAxes(i) == devices[i].capabilities.absolute_axes

\* The first source, in list order, that has an absolute axis.
FirstSourceWith(code) ==
    CHOOSE i \in Sources :
        /\ code \in DOMAIN SourceAxes(i)
        /\ \A j \in 1..(i - 1) : code \notin DOMAIN SourceAxes(j)

\* C8: CreateFromDevices builds, for every category not excluded, the union
\* of the sources' codes of the category, and for the absolute axes each code
\* with the AbsInfo of the first source that has it; an excluded category is
\* empty; the capabilities of the options passed in do not contribute.
C8_CapabilityMerge ==
    FromDevices =>
        LET merged == new_options.capabilities IN
        /\ \A c \in CodeSetCategories :
              merged[c[1]] =
                  IF c[2] \in excluded_event_types THEN {}
                  ELSE UNION {devices[i].capabilities[c[1]] : i \in Sources}
        /\ DOMAIN merged.absolute_axes =
              IF EV_ABS \in excluded_event_types THEN {}
              ELSE UNION {DOMAIN SourceAxes(i) : i \in Sources}
        /\ \A code \in DOMAIN merged.absolute_axes :
              merged.absolute_axes[code] =
                  SourceAxes(FirstSourceWith(code))[code]

\* C8 witness: two sources that describe axis 1 differently were merged
\* under the default exclusion set, next to options that hold keys of their
\* own.
C8_Witness ==
    /\ FromDevices
    /\ devices = <<Joystick, Gamepad>>
    /\ excluded_event_types = {EV_SYN, EV_FF}
    /\ options.capabilities.keys # {}
    /\ new_options.capabilities.keys = {272}
    /\ new_options.capabilities.absolute_axes[1] = WheelAxis
    /\ new_options.capabilities.absolute_axes[0] = StickAxis
    /\ new_options.capabilities.force_feedbacks = {}

SourceCounts == {devices[i].ff_effects_count : i \in Sources}

IsMinimumOf(v, S) == v \in S /\ \A x \in S : v <= x

DevSetups == {i \in DOMAIN requests : requests[i].req = "UI_DEV_SETUP"}

\* C9 as claimed: for every list of sources, the max-effects value of a
\* device created by CreateFromDevices is the minimum of the sources' counts.
C9_MinOfSources ==
    FromDevices =>
        /\ IsMinimumOf(new_options.max_effects, SourceCounts)
        /\ \A i \in DevSetups :
              IsMinimumOf(requests[i].arg.ff_effects_max, SourceCounts)

\* C9 amended: the max-effects value of a device created by
\* CreateFromDevices is the minimum of the max_effects of the options passed
\* in and the sources' counts.
C9_MinOfOptionsAndSources ==
    FromDevices =>
        /\ IsMinimumOf(new_options.max_effects,
                       SourceCounts \cup {options.max_effects})
        /\ \A i \in DevSetups :
              IsMinimumOf(requests[i].arg.ff_effects_max,
                          SourceCounts \cup {options.max_effects})

\* C9 witness: sources with counts 4, 2 and 8 and default options were set
\* up with 2.
C9_Witness ==
    /\ FromDevices
    /\ devices = <<Gamepad, Wheel, Joystick>>
    /\ options.max_effects = kMaxEffects
    /\ \E i \in DevSetups : requests[i].arg.ff_effects_max = 2

\* The claimed order of the categories, with the request that enables a
\* code of each.
ClaimedOrder == <<EV_KEY, EV_ABS, EV_REL, EV_MSC, EV_SW, EV_FF, EV_SND>>
ClaimedCodeRequest ==
    <<"UI_SET_KEYBIT", "UI_SET_ABSBIT", "UI_SET_RELBIT", "UI_SET_MSCBIT",
      "UI_SET_SWBIT", "UI_SET_FFBIT", "UI_SET_SNDBIT">>

\* The codes of the k-th category in the capabilities Create runs with.
ClaimedCodes(k) ==
    LET caps == new_options.capabilities IN
    <<caps.keys, DOMAIN caps.absolute_axes, caps.relative_axes, caps.miscs,
      caps.switches, caps.force_feedbacks, caps.sounds>>[k]

Categories == 1..Len(ClaimedOrder)

Positions == DOMAIN requests

IsEvbit(p) == requests[p].req = "UI_SET_EVBIT"

IsEvbitOf(p, k) == IsEvbit(p) /\ requests[p].arg = ClaimedOrder[k]

IsCodeRequest(p, k, code) ==
    requests[p].req = ClaimedCodeRequest[k] /\ requests[p].arg = code

IsSetup(p) ==
    requests[p].req \in {"UI_ABS_SETUP", "UI_DEV_SETUP", "UI_DEV_CREATE"}

IsEnable(p) ==
    IsEvbit(p) \/ \E k \in Categories : requests[p].req = ClaimedCodeRequest[k]

\* The enable-event-type requests come in the claimed order, one a category.
EvbitsInOrder ==
    LET evbits == SelectSeq(requests, LAMBDA r : r.req = "UI_SET_EVBIT") IN
    /\ Len(evbits) <= Len(ClaimedOrder)
    /\ \A k \in 1..Len(evbits) : evbits[k].arg = ClaimedOrder[k]

\* An enable-code request is for a code of its category and follows the
\* category's enable-event-type request with no other category's between.
CodeAfterItsEvbit ==
    \A p \in Positions, k \in Categories :
        requests[p].req = ClaimedCodeRequest[k] =>
            /\ requests[p].arg \in ClaimedCodes(k)
            /\ \E q \in 1..(p - 1) :
                  /\ IsEvbitOf(q, k)
                  /\ \A m \in (q + 1)..(p - 1) : ~IsEvbit(m)

\* The enabling of category k is over at position p: a later category or
\* the setup has begun.
CategoryOverBefore(k, p) ==
    \/ IsSetup(p)
    \/ \E j \in (k + 1)..Len(ClaimedOrder) : IsEvbitOf(p, j)

\* No code is enabled twice, and when the enabling of a category is over
\* each of its codes was enabled once.
OneRequestPerCode ==
    \A k \in Categories :
        /\ \A p \in Positions, q \in Positions :
              (requests[p].req = ClaimedCodeRequest[k]
               /\ requests[q].req = ClaimedCodeRequest[k]
               /\ requests[p].arg = requests[q].arg) => p = q
        /\ \A p \in Positions :
              CategoryOverBefore(k, p) =>
                  \A code \in ClaimedCodes(k) :
                      \E q \in 1..(p - 1) : IsCodeRequest(q, k, code)

\* A setup or create request comes after the enable-event-type request of
\* every category, and after enable requests that all succeeded.
SetupAfterEnables ==
    \A p \in Positions :
        IsSetup(p) =>
            /\ \A k \in Categories : \E q \in 1..(p - 1) : IsEvbitOf(q, k)
            /\ \A q \in 1..(p - 1) : IsEnable(q) => requests[q].ok
            /\ \A q \in (p + 1)..Len(requests) : ~IsEnable(q)

\* C10: Create issues its enable requests category by category in the order
\* key, absolute axis, relative axis, misc, switch, force feedback, sound;
\* a category's enable-event-type request precedes its enable-code requests;
\* each code gets exactly one enable-code request; absolute-axis setup,
\* device setup and device create come only after all enable requests
\* succeeded.
C10_EnableOrdering ==
    /\ EvbitsInOrder
    /\ CodeAfterItsEvbit
    /\ OneRequestPerCode
    /\ SetupAfterEnables

\* C10 witness: a device with two keys, two absolute axes and a relative
\* axis was enabled, set up and created.
C10_Witness ==
    /\ upc = "done"
    /\ status = "OK"
    /\ Cardinality(new_options.capabilities.keys) = 2
    /\ Cardinality(DOMAIN new_options.capabilities.absolute_axes) = 2
    /\ new_options.capabilities.relative_axes # {}
    /\ \E p \in Positions : requests[p].req = "UI_ABS_SETUP"
    /\ requests[Len(requests)].req = "UI_DEV_CREATE"

\* C11: an enable-event-type request is issued for a category if and only
\* if the category of the capability set is not empty.
C11_EvbitIffNonEmpty ==
    requests # <<>> =>
        \A k \in Categories :
            /\ (\E p \in Positions : IsEvbitOf(p, k)) => ClaimedCodes(k) # {}
            /\ (ClaimedCodes(k) # {} /\ \E p \in Positions : IsSetup(p))
                   => \E p \in Positions : IsEvbitOf(p, k)

\* The error Create returns when a request is refused.
ClaimedError(req) ==
    CASE req = "UI_SET_PHYS" -> "Errno: Setting physical path failed"
      [] req = "UI_SET_PROPBIT" -> "Errno: Setting property failed"
      [] req = "UI_SET_EVBIT" -> "Errno: Failed to enable event type"
      [] req = "UI_ABS_SETUP" -> "Errno: Failed to setup absolute axis"
      [] req = "UI_DEV_SETUP" -> "Errno: Failed to setup user device info"
      [] req = "UI_DEV_CREATE" -> "Errno: Failed to create user input device"
      [] OTHER -> "Errno: Failed to enable event code"

ValidationErrors ==
    {"InvalidArgument: not a writable character device",
     "InvalidArgument: name too long",
     "Errno: Open user input device failed"}

\* Discovery has not been entered.
NoDiscovery == device_ = None /\ upc # "find"

\* C12: a refused request is the last request Create issues; Create returns
\* the error of that step and never runs discovery; a failed validation or
\* open issues no request at all; the device-create request follows only
\* requests that succeeded, and Create returns OK only when none failed.
C12_StopsAtFirstFailure ==
    /\ \A p \in Positions :
          ~requests[p].ok =>
              /\ p = Len(requests)
              /\ upc = "done"
              /\ status = ClaimedError(requests[p].req)
              /\ NoDiscovery
    /\ status \in ValidationErrors => (requests = <<>> /\ NoDiscovery)
    /\ \A p \in Positions :
          requests[p].req = "UI_DEV_CREATE" =>
              \A q \in 1..(p - 1) : requests[q].ok
    /\ status = "OK" => \A p \in Positions : requests[p].ok

\* C12 witness: the setup of the second absolute axis was refused after the
\* first was accepted, and Create returned that error.
C12_Witness ==
    /\ upc = "done"
    /\ status = "Errno: Failed to setup absolute axis"
    /\ Len(requests) >= 2
    /\ requests[Len(requests)].req = "UI_ABS_SETUP"
    /\ ~requests[Len(requests)].ok
    /\ requests[Len(requests) - 1].req = "UI_ABS_SETUP"
    /\ device_ = None

(***************************************************************************)
(* Claims about the discovery, read off the log of FindDevice.             *)
(***************************************************************************)

\* The enumerations of /dev/input by the fallback strategy.
FallbackRuns ==
    {i \in DOMAIN dlog : dlog[i].op = "scan" /\ dlog[i].dir = "/dev/input"}

\* The waits of the log.
Waits == {i \in DOMAIN dlog : dlog[i].op = "sleep"}

\* The opens of the log.
Opens == {i \in DOMAIN dlog : dlog[i].op = "open"}

\* The steps of the direct strategy: those before the fallback's wait.
DirectSteps ==
    IF FallbackRuns = {} THEN DOMAIN dlog
    ELSE {i \in DOMAIN dlog : \A j \in FallbackRuns : i < j - 1}

\* The steps of the fallback strategy, its wait included.
FallbackSteps == DOMAIN dlog \ DirectSteps

\* The direct strategy returned an opened device.
DirectOpened ==
    \E i \in DirectSteps : dlog[i].op = "open" /\ dlog[i].ok

\* The system-name lookup failed.
LookupFailed == dlog # <<>> /\ dlog[1].op = "ioctl" /\ ~dlog[1].ok

\* The scan of the sysfs directory ended in an exception.
ScanThrew ==
    /\ upc = "done"
    /\ status = "exception: filesystem_error"
    /\ dlog[Len(dlog)] = Scan("sysfs")

\* FindDeviceLinux returned an error.
DirectReturnedError ==
    /\ \E i \in DOMAIN dlog : dlog[i] = Scan("sysfs")
    /\ upc \notin {"scan", "open", "last"}
    /\ ~DirectOpened
    /\ ~ScanThrew

C13_DirectWitness ==
    /\ upc = "done"
    /\ Len(dlog) = 3
    /\ DirectOpened
    /\ device_ = "found"


\* The opens and the waits of the direct strategy.
DirectOpens == Opens \cap DirectSteps
DirectWaits == Waits \cap DirectSteps

\* C14 as the specification states it: between two opens of the direct
\* strategy the system name is resolved and the sysfs directory scanned
\* again.
C14_EntireSequenceRetried ==
    \A i, j \in DirectOpens :
        i < j =>
            /\ \E k \in (i + 1)..(j - 1) : dlog[k].op = "ioctl"
            /\ \E k \in (i + 1)..(j - 1) : dlog[k] = Scan("sysfs")

\* C14, amended: the system name is resolved once and the sysfs directory
\* scanned once; when the open of the derived node fails, only the open is
\* repeated, on the same path, up to 19 more times (20 opens in all), with
\* one wait of 100 ms after each failed open but the last; a direct
\* strategy that never opened the node has made all 20 opens and 19 waits
\* before it returns its error.
C14_OpenRetried ==
    LET steps == DirectSteps
        opens == {i \in steps : dlog[i].op = "open"}
        waits == {i \in steps : dlog[i].op = "sleep"}
    IN  /\ Cardinality({i \in DOMAIN dlog : dlog[i].op = "ioctl"}) <= 1
        /\ Cardinality({i \in DOMAIN dlog : dlog[i] = Scan("sysfs")}) <= 1
        /\ \A i \in opens : dlog[i].path = device_path /\ i > 2
        /\ Cardinality(opens) <= kRetries + 1
        /\ Cardinality(waits) <= kRetries
        /\ \A i \in waits :
              /\ dlog[i] = SleepFor(kSleepMs)
              /\ dlog[i - 1] = Open(device_path, FALSE)
              /\ (i + 1) \in steps => dlog[i + 1].op = "open"
        /\ \A i \in opens :
              (i + 1) \in steps => (~dlog[i].ok /\ (i + 1) \in waits)
        /\ (device_path # <<>> /\ ~DirectOpened /\ upc \notin {"open", "last"})
              => /\ Cardinality(opens) = kRetries + 1
                 /\ Cardinality(waits) = kRetries

\* A direct strategy that failed all its opens, and a discovery that then
\* found nothing.
C14_Witness ==
    /\ upc = "done"
    /\ Cardinality(DirectOpens) = kRetries + 1
    /\ Cardinality(DirectWaits) = kRetries
    /\ ~DirectOpened
    /\ device_ = "absent"


\* The opens and the waits of the fallback strategy.
FallbackOpens == Opens \cap FallbackSteps
FallbackWaits == Waits \cap FallbackSteps

\* The budget of the discovery: at most 19 waits and 20 opens in the direct
\* strategy; in the fallback strategy, once it has run, exactly one wait,
\* of 100 ms, and at most one open per candidate, each of a candidate.
DiscoveryBudget ==
    /\ Cardinality(DirectWaits) <= kRetries
    /\ Cardinality(DirectOpens) <= kRetries + 1
    /\ \A i \in Waits : dlog[i].ms = kSleepMs
    /\ Cardinality(FallbackWaits) = Cardinality(FallbackRuns)
    /\ Cardinality(FallbackWaits) <= 1
    /\ \A i \in FallbackOpens :
          \E k \in DOMAIN candidate_devices :
              dlog[i].path = candidate_devices[k].basename
    /\ \A k \in DOMAIN candidate_devices :
          Cardinality({i \in FallbackOpens :
                          dlog[i].path = candidate_devices[k].basename}) <= 1
    /\ Cardinality(FallbackOpens) <= Len(candidate_devices)

\* C15: the discovery stays within its budget in every state, and a
\* discovery that was started always comes to its end, whatever the
\* system calls return.
C15_TerminatesWithinBudget ==
    /\ []DiscoveryBudget
    /\ (upc = "find") ~> (upc = "done")

\* A discovery that used all of its budget: 19 waits and 20 opens in the
\* direct strategy, then the fallback's one wait and one failed open for
\* each of three candidates.
C15_Witness ==
    /\ upc = "done"
    /\ Cardinality(DirectWaits) = kRetries
    /\ Cardinality(DirectOpens) = kRetries + 1
    /\ Cardinality(FallbackWaits) = 1
    /\ Len(candidate_devices) = 3
    /\ Cardinality(FallbackOpens) = 3
    /\ \A i \in FallbackOpens : ~dlog[i].ok


\* The fallback strategy opened candidate k.
CandidateOpened(k) ==
    \E i \in FallbackOpens : dlog[i] = Open(candidate_devices[k].basename, TRUE)

\* The name the kernel reports for candidate k is the configured name of
\* the virtual device, as text.
ReportsConfiguredName(k) ==
    candidate_devices[k].name = CStr(new_options.name)

\* The candidates that were opened and report the configured name.
Matching ==
    {k \in DOMAIN candidate_devices :
        CandidateOpened(k) /\ ReportsConfiguredName(k)}

\* C16: the candidates of the fallback strategy are the listed nodes named
\* "event" and digits, in ascending lexicographic order; when the fallback
\* has returned, it has returned the first candidate that was opened and
\* reports the configured name, and it has returned NotFound only if no
\* opened candidate reports that name.
C16_FallbackSelection ==
    /\ \A k \in DOMAIN candidate_devices :
          /\ IsEventNode(candidate_devices[k].basename)
          /\ \A j \in 1..(k - 1) :
                LexLess(candidate_devices[j].basename,
                        candidate_devices[k].basename)
    /\ (upc = "done" /\ status = "OK" /\ FallbackRuns # {}) =>
          IF Matching = {}
          THEN device_ = "absent"
          ELSE /\ device_ = "found"
               /\ \E k \in Matching :
                     /\ \A j \in Matching : k <= j
                     /\ found_dev.path = candidate_devices[k].basename


\* The device-create request has succeeded.
DeviceCreated ==
    \E i \in DOMAIN requests : requests[i] = Request("UI_DEV_CREATE", 0, TRUE)

\* C17: when Create is over and its device-create request had succeeded,
\* Create has returned success and the device returned holds its own
\* descriptor open, whatever the discovery did; when the discovery found
\* nothing the device has no self-handle.
C17_DiscoveryNonFatal ==
    (upc = "done" /\ DeviceCreated) =>
        /\ status = "OK"
        /\ fd_ = "open"
        /\ device_ \in {"found", "absent"}
        /\ device_ = "absent" => found_dev = NoValue


(***************************************************************************)
(* Claims about the force-feedback handshakes.                             *)
(***************************************************************************)

\* Two ff_effect records agree in the type tag, the common fields and the
\* fields of the union member of the tag.
SameWire(a, b) ==
    /\ a.type = b.type
    /\ a.id = b.id
    /\ a.direction = b.direction
    /\ a.trigger = b.trigger
    /\ a.replay = b.replay
    /\ a.u = b.u

\* The requests of the log that the kernel accepted.
Accepted(req) ==
    {i \in DOMAIN ff_ioctls : ff_ioctls[i].req = req /\ ff_ioctls[i].ok}

\* C18: BeginUpload issues the begin-upload request with the id of the
\* event, and what it returns holds that id and both effects decoded, each
\* of the class of its tag; a following EndUpload issues the end-upload
\* request with the same id, the return code the caller set, and both
\* effects encoded again, each equal to the record BeginUpload fetched in
\* tag, common fields and live union fields if its tag is recognized.
C18_UploadHandshake ==
    /\ \A i \in DOMAIN ff_ioctls :
          ff_ioctls[i].req = "UI_BEGIN_FF_UPLOAD" =>
              /\ i = 1
              /\ ff_ioctls[i].arg.request_id = ff_event.value
    /\ upload # NoValue =>
          /\ Accepted("UI_BEGIN_FF_UPLOAD") = {1}
          /\ upload.request_id = ff_event.value
          /\ upload.effect.variant = VariantOfTag(ff_request.effect.type)
          /\ upload.effect.id = ff_request.effect.id
          /\ upload.old.variant = VariantOfTag(ff_request.old.type)
          /\ upload.old.id = ff_request.old.id
    /\ \A i \in DOMAIN ff_ioctls :
          ff_ioctls[i].req = "UI_END_FF_UPLOAD" =>
              /\ i = 2
              /\ Accepted("UI_BEGIN_FF_UPLOAD") = {1}
              /\ LET fetched == ff_ioctls[1].out
                     sent == ff_ioctls[i].arg
                 IN  /\ sent.request_id = ff_event.value
                     /\ sent.request_id = fetched.request_id
                     /\ sent.retval = upload.retval
                     /\ fetched.effect.type \in RecognizedTags
                           => SameWire(sent.effect, fetched.effect)
                     /\ fetched.old.type \in RecognizedTags
                           => SameWire(sent.old, fetched.old)
    /\ (fpc = "done" /\ Accepted("UI_END_FF_UPLOAD") # {}) =>
          /\ ~ff_request.pending
          /\ ff_request.retval = upload.retval

\* An upload that replaces an effect was accepted by the caller with a
\* return code of its own and acknowledged.
C18_Witness ==
    /\ fpc = "done"
    /\ Accepted("UI_END_FF_UPLOAD") = {2}
    /\ ff_event.value = MaxRequestId
    /\ upload.retval = -22
    /\ ff_request.effect.type = kCustom
    /\ ff_request.old.type = kCustom
    /\ ff_ioctls[2].arg.effect = ff_request.effect
    /\ ff_ioctls[2].arg.old = ff_request.old


\* C19: BeginErase asks the kernel for the erase request whose id is the
\* value of the event and returns that request's ids; when a following
\* EndErase has returned success, it has issued the end-erase request with
\* the request id, the return code the caller set and the effect id of
\* BeginErase, and the kernel's request is no longer pending.
C19_EraseHandshake ==
    /\ (ff_ioctls # <<>> /\ ff_ioctls[1].req = "UI_BEGIN_FF_ERASE") =>
          ff_ioctls[1].arg.request_id = ff_event.value
    /\ erase # NoValue =>
          /\ erase.request_id = ff_event.value
          /\ erase.effect_id = ff_request.effect_id
    /\ (fpc = "done" /\ erase # NoValue /\ ff_status = "OK") =>
          /\ Len(ff_ioctls) = 2
          /\ ff_ioctls[2].req = "UI_END_FF_ERASE"
          /\ ff_ioctls[2].arg = erase
          /\ ~ff_request.pending


(***************************************************************************)
(* Claims about HasCapabilities.                                           *)
(***************************************************************************)

\* The codes of a category: the elements of a set, the keys of the map of
\* the absolute axes.
Codes(caps, category) ==
    IF category = "absolute_axes" THEN DOMAIN caps.absolute_axes
    ELSE caps[category]

\* C20: what HasCapabilities returned is true exactly if, in each of the
\* eleven categories, the codes of min are a subset of the codes of self;
\* and the call changes neither self nor min.
C20_HasCapabilities ==
    /\ [](hpc = "returned" =>
            (has_result <=>
                \A category \in DOMAIN CapabilitiesInfo :
                    Codes(min, category) \subseteq Codes(self, category)))
    /\ [][hpc = "called" => (self' = self /\ min' = min)]_vars

\* A call that returned true although the axes of min and self differ in
\* their AbsInfo, and min is not self.
C20_Witness ==
    /\ hpc = "returned"
    /\ has_result = TRUE
    /\ min # self
    /\ DOMAIN min.absolute_axes = {1}
    /\ min.absolute_axes[1] # self.absolute_axes[1]

\* A call that returned false because of one code of the last category.
C20_WitnessFalse ==
    /\ hpc = "returned"
    /\ has_result = FALSE
    /\ \A category \in DOMAIN CapabilitiesInfo \ {"uinputs"} :
          Codes(min, category) \subseteq Codes(self, category)


\* Every category of a is a subset of the same category of b, by code.
SubCapabilities(a, b) ==
    \A category \in DOMAIN CapabilitiesInfo :
        Codes(a, category) \subseteq Codes(b, category)

\* C21: a call X.HasCapabilities(X) returns true; and when
\* X.HasCapabilities(Y) returned true, a call X.HasCapabilities(Z) with
\* every category of Z a subset of Y's returns true.
C21_ReflexiveMonotonic ==
    /\ (hpc \in {"returned", "returned_again"} /\ min = self)
          => has_result = TRUE
    /\ (hpc = "returned_again" /\ first_result = TRUE
          /\ SubCapabilities(min, first_min))
          => has_result = TRUE

\* X.HasCapabilities(Y) and then X.HasCapabilities(Z) returned true, with Z
\* below Y, Y below X, all three different, and the axes of Z and X
\* differing in their AbsInfo.
C21_Witness ==
    /\ hpc = "returned_again"
    /\ first_result = TRUE
    /\ has_result = TRUE
    /\ SubCapabilities(min, first_min)
    /\ min # first_min /\ first_min # self /\ min # self
    /\ DOMAIN min.absolute_axes = {1}
    /\ min.absolute_axes[1] # self.absolute_axes[1]

\* A call X.HasCapabilities(X) with axes in X.
C21_WitnessReflexive ==
    /\ hpc = "returned"
    /\ min = self
    /\ DOMAIN self.absolute_axes = {1, 2}
    /\ has_result = TRUE

\* The requests of the loop over the event types: every request after the
\* first.
TypeRequests == {query_ioctls[i] : i \in 2 .. Len(query_ioctls)}

\* The set bits of the types a member of CapabilitiesInfo is filled from,
\* for the types whose code-bitmap request succeeded; limit is the highest
\* code counted.
ReportedCodes(member, limit) ==
    UNION {{c \in EVIOCGBIT(kdev, t) : c <= limit} :
              t \in {u \in kdev.types :
                        /\ MemberOfType(u) = member
                        /\ Request("EVIOCGBIT", u, TRUE) \in TypeRequests}}

\* The axes whose AxisInfo request failed.
FailedAxes ==
    {r.arg : r \in {x \in TypeRequests : x.req = "EVIOCGABS" /\ ~x.ok}}

\* The error policy of the query, counting the set bits up to limit.
QueryErrorPolicy(limit) ==
    qpc = "done" =>
        /\ query_status = "error" <=> ~query_ioctls[1].ok
        /\ query_status = "ok" =>
              /\ \A member \in DOMAIN CapabilitiesInfo \ {"absolute_axes"} :
                    q_capabilities[member] = ReportedCodes(member, limit)
              /\ DOMAIN q_capabilities.absolute_axes =
                     ReportedCodes("absolute_axes", limit) \ FailedAxes
              /\ \A c \in DOMAIN q_capabilities.absolute_axes :
                    q_capabilities.absolute_axes[c] = kdev.axes[c]

\* C22: the query returns an error exactly if its first request failed; on
\* success a member holds every set bit of every type it is filled from
\* whose code-bitmap request succeeded, nothing of a type whose request
\* failed, and the axes lack exactly those whose AxisInfo request failed.
C22_QueryErrorPolicy == QueryErrorPolicy(KEY_MAX)

\* The same with the set bits below KEY_MAX only, which is what the loop
\* for (ev_code = 0; ev_code < KEY_MAX; ++ev_code) visits.
QueryErrorPolicyBelowMax == QueryErrorPolicy(KEY_MAX - 1)

\* A successful query in which the code-bitmap request of one type and the
\* AxisInfo request of one axis failed.
QueryToleratedFailures ==
    /\ qpc = "done"
    /\ query_status = "ok"
    /\ Request("EVIOCGBIT", EV_FF, FALSE) \in TypeRequests
    /\ FailedAxes = {1}
    /\ DOMAIN q_capabilities.absolute_axes = {0}

\* The codes the Code Registry knows for a member of CapabilitiesInfo.
RegistryCodes(member) ==
    CASE member = "keys" -> KeyTable \cup ButtonTable
      [] member = "synchs" -> SynchTable
      [] member = "relative_axes" -> RelativeAxisTable
      [] member = "absolute_axes" -> AbsoluteAxisTable
      [] member = "miscs" -> MiscTable
      [] member = "switches" -> SwitchTable
      [] member = "leds" -> LEDTable
      [] member = "sounds" -> SoundTable
      [] member = "autorepeats" -> AutorepeatTable
      [] member = "force_feedbacks" -> ForceFeedbackTable
      [] member = "uinputs" -> UIForceFeedbackTable

\* C23: after a successful query every code held in a member of the
\* resulting CapabilitiesInfo is a code the Code Registry knows for that
\* member.
C23_OnlyRegistryCodes ==
    (qpc = "done" /\ query_status = "ok") =>
        \A member \in DOMAIN CapabilitiesInfo :
            Codes(q_capabilities, member) \subseteq RegistryCodes(member)

\* The query stored the key code 84, which no table of the registry holds.
QueryStoredUnknownKey ==
    /\ qpc = "done"
    /\ query_status = "ok"
    /\ 84 \in q_capabilities.keys
    /\ ~InTable("KeyEvent", 84)

\* The class of each effect type, as the interface of AnyEffect names them.
ClassOfEffectType ==
    [t \in RecognizedTags |->
        CASE t = kConstant -> "ConstantEffect"
          [] t = kPeriodic -> "PeriodicEffect"
          [] t = kRamp -> "RampEffect"
          [] t = kSpring -> "SpringEffect"
          [] t = kFriction -> "FrictionEffect"
          [] t = kDamper -> "DamperEffect"
          [] t = kRumble -> "RumbleEffect"
          [] t = kInertia -> "InertiaEffect"
          [] t = kCustom -> "CustomEffect"]

\* C24: AnyEffect::FromData returns an effect for every record; for a record
\* whose type tag is no effect type it is the base Effect, holding the
\* identifier, direction, trigger and replay of the record and nothing else;
\* for a recognized tag it is the class of that tag.
C24_FromDataUnknownTag ==
    cpc = "decoded" =>
        /\ decoded # NoValue
        /\ IF data.type \in RecognizedTags
              THEN decoded.variant = ClassOfEffectType[data.type]
              ELSE /\ decoded.variant = "Effect"
                   /\ DOMAIN decoded =
                          {"variant", "id", "direction", "trigger", "replay"}
                   /\ decoded.id = data.id
                   /\ decoded.direction = data.direction
                   /\ decoded.trigger.button = data.trigger.button
                   /\ decoded.trigger.interval = 1000 * data.trigger.interval
                   /\ decoded.replay.length = 1000 * data.replay.length
                   /\ decoded.replay.delay = 1000 * data.replay.delay

\* A record with the waveform FF_SQUARE as its type and the bytes of a
\* rumble effect in its union was decoded to the base Effect.
C24_Witness ==
    /\ cpc = "decoded"
    /\ data.type = kSquare
    /\ data.u.member = "rumble"
    /\ data.replay.length = 40000
    /\ decoded.variant = "Effect"
    /\ decoded.replay.length = 40000000

\* C25: Wait returns true only with an event readable, returns false only
\* when the whole timeout of the caller has passed, returns an error only
\* from a failed poll, and never sits in a poll without a timeout.
C25_WaitBounded ==
    /\ (wpc = "returned" /\ wait_result = "true") => readable
    /\ (wpc = "returned" /\ wait_result = "false") =>
          1000 * elapsed >= wait_timeout
    /\ wpc = "polling" => poll_timeout >= 0

\* Wait(5 s) returned false one millisecond after the call.
WaitReturnedEarly ==
    /\ wpc = "returned"
    /\ wait_result = "false"
    /\ wait_timeout = 5000000
    /\ elapsed = 1

\* The operations that construct or assign from another object.
FromOtherOps ==
    {"copy-construct", "copy-assign", "move-construct", "move-assign"}

\* The classes that can be live in the union an object belongs to.
ClassesOfUnion(obj) ==
    IF IsEventClass(obj.variant)
        THEN {"InputEvent"} \cup {CatEvents[i] : i \in DOMAIN CatEvents}
        ELSE Variants

\* An object holds one class of its union and the members of that class,
\* no others.
OneLiveVariant(obj) ==
    /\ obj.variant \in ClassesOfUnion(obj)
    /\ DOMAIN obj = MembersOf(obj.variant)

\* C26: after a copy or move construction or assignment from a source, the
\* destination has the class of the source and every field equal to the
\* source's, the source is as before, either object holds exactly one
\* class; a self-assignment leaves the object as it was.
C26_ValueSemantics ==
    /\ value_op \in FromOtherOps =>
          /\ value_this.variant = value_rhs0.variant
          /\ \A f \in DOMAIN value_rhs0 :
                f \in DOMAIN value_this /\ value_this[f] = value_rhs0[f]
          /\ value_rhs = value_rhs0
          /\ OneLiveVariant(value_this)
          /\ OneLiveVariant(value_rhs)
    /\ value_op \in {"self-copy-assign", "self-move-assign"} =>
          /\ value_this = value_this0
          /\ OneLiveVariant(value_this)

\* A CustomEffect was move-assigned onto an object that held a
\* RumbleEffect.
C26_Witness ==
    /\ value_op = "move-assign"
    /\ value_this0.variant = "RumbleEffect"
    /\ value_rhs0.variant = "CustomEffect"
    /\ value_this.variant = "CustomEffect"
    /\ value_this.custom_len = 2
    /\ "strong_magnitude" \notin DOMAIN value_this

\* A KeyEvent holding a button was copy-constructed.
C26_WitnessEvent ==
    /\ value_op = "copy-construct"
    /\ value_rhs.variant = "KeyEvent"
    /\ value_this.button = 272

\* The duration fields of an effect e, each with the field of the record d
\* it was written to and the field of the effect dec decoded from d.
DurationFields(e, d, dec) ==
    {<<e.trigger.interval, d.trigger.interval, dec.trigger.interval>>,
     <<e.replay.length, d.replay.length, dec.replay.length>>,
     <<e.replay.delay, d.replay.delay, dec.replay.delay>>}
    \cup (IF "envelope" \in DOMAIN e
             THEN {<<e.envelope.attack_length, d.u.envelope.attack_length,
                     dec.envelope.attack_length>>,
                   <<e.envelope.fade_length, d.u.envelope.fade_length,
                     dec.envelope.fade_length>>}
             ELSE {})
    \cup (IF "period" \in DOMAIN e
             THEN {<<e.period, d.u.period, dec.period>>}
             ELSE {})

\* A field of the record holds a 16-bit count and the decoded duration is
\* not above the duration written and less than a millisecond below it.
TruncatedToMilliseconds(t) ==
    /\ t[2] \in 0 .. 65535
    /\ t[3] = 1000 * t[2]
    /\ t[3] <= t[1]
    /\ t[1] - t[3] < 1000

\* C27: every duration field of an effect (trigger interval, replay length
\* and delay, attack and fade length of the envelope, period) is written as
\* a 16-bit count of whole milliseconds, and the duration decoded from it
\* is not above the original and less than one millisecond below it.
C27_DurationEncoding ==
    cpc = "decoded" =>
        \A t \in DurationFields(effect, data, decoded) :
            TruncatedToMilliseconds(t)

\* The same for the durations a 16-bit count of milliseconds can hold, from
\* 0 up to, not including, 65536 ms.
DurationEncodingInRange ==
    cpc = "decoded" =>
        \A t \in DurationFields(effect, data, decoded) :
            (0 <= t[1] /\ t[1] < 65536000) => TruncatedToMilliseconds(t)

\* A replay length of 65536 ms was written as 0 and decoded to 0 ms.
DurationWrapped ==
    /\ cpc = "decoded"
    /\ effect.replay.length = 65536000
    /\ data.replay.length = 0
    /\ decoded.replay.length = 0

\* How many entries of a sequence satisfy a test.
CountOf(seq, Test(_)) == Cardinality({i \in DOMAIN seq : Test(seq[i])})

\* The successful calls of GrabInScope on a device, the Ungrab requests on
\* it, and the live objects whose parent it is.
GrabsOf(dev) ==
    LET Granted(c) == c.op = "GrabInScope" /\ c.dev = dev /\ c.ok
    IN  CountOf(grab_calls, Granted)

UngrabsOf(dev) ==
    LET Release(r) == r.dev = dev /\ r.arg = 0
    IN  CountOf(grab_ioctls, Release)

OwnersOf(dev) ==
    Cardinality({slot \in DOMAIN scoped_grabs :
                    /\ scoped_grabs[slot].life = "alive"
                    /\ scoped_grabs[slot].parent = dev})

\* C28: at any time every successful GrabInScope on a device is either held
\* by exactly one live ScopedGrab or was released by exactly one Ungrab, so
\* once every object is destroyed the Ungrab calls equal the successful
\* grabs; an Ungrab is issued only for a grab that is held (a moved-from
\* object and a failed GrabInScope issue none), and a move assignment onto
\* an object that owns a grab has released it.
C28_ReleasedExactlyOnce ==
    /\ \A dev \in GrabDevices :
          /\ UngrabsOf(dev) + OwnersOf(dev) = GrabsOf(dev)
          /\ OwnersOf(dev) <= 1
          /\ OwnersOf(dev) = 1 <=> dev \in grabbed
    /\ \A i \in DOMAIN grab_ioctls :
          grab_ioctls[i].arg = 0 => grab_ioctls[i].ok
    /\ (grab_calls # <<>> /\ grab_calls[Len(grab_calls)].op = "move-assign"
          /\ grab_calls[Len(grab_calls)].released # nullptr) =>
          /\ grab_ioctls # <<>>
          /\ grab_ioctls[Len(grab_ioctls)] =
                 GrabIoctl(grab_calls[Len(grab_calls)].released, 0, TRUE)

\* Two grabs of one device: the first moved to a second object and released
\* by a move assignment from a third, empty one; the second grab released
\* by the destruction of its object.  No object holds a grab any more.
C28_Witness ==
    /\ Len(grab_calls) = MaxGrabCalls
    /\ GrabsOf("event2") = 2
    /\ UngrabsOf("event2") = 2
    /\ \E i \in DOMAIN grab_calls :
          /\ grab_calls[i].op = "move-assign"
          /\ grab_calls[i].released = "event2"
    /\ \E i \in DOMAIN grab_calls :
          /\ grab_calls[i].op = "destroy"
          /\ grab_calls[i].parent = "event2"
    /\ \A slot \in Slots : scoped_grabs[slot].parent = nullptr

\* A failed GrabInScope, and a moved-from object destroyed, with no Ungrab
\* issued.
C28_WitnessNoUngrab ==
    /\ \E i \in DOMAIN grab_calls :
          grab_calls[i].op = "GrabInScope" /\ ~grab_calls[i].ok
    /\ \E i \in DOMAIN grab_calls :
          grab_calls[i].op = "destroy" /\ grab_calls[i].parent = nullptr
    /\ \A i \in DOMAIN grab_ioctls : grab_ioctls[i].arg = 1
    /\ \E slot \in Slots : scoped_grabs[slot].parent = "event3"

\* AnyInputEvent::As<ActualEvent>(): its two assertions,
\* ExpectedEventType<ActualEvent>() == Base().type and Base().IsInCategory().
EventAs(ActualEvent, any) ==
    /\ ExpectedEventType(ActualEvent) = any.type
    /\ IsInCategory(any)

\* C29: when Categorize returned an event of a class V that is in category,
\* both assertions of As<V>() hold on it: the declared type of the event is
\* the event type expected of V, and the event is in category.
C29_AsAfterCategorize ==
    (Categorized /\ IsInCategory(first)) => EventAs(first.variant, first)

\* With the first CategorizeImpl, a record of type EV_KEY with the code 84
\* became a ForceFeedbackEvent, whose expected type is EV_FF_STATUS.
AsTypeAssertionFails ==
    /\ Categorized
    /\ impl = "CheckEventType"
    /\ raw.type = EV_KEY
    /\ raw.code = 84
    /\ first.variant = "ForceFeedbackEvent"
    /\ IsInCategory(first)
    /\ ExpectedEventType("ForceFeedbackEvent") = EV_FF_STATUS
    /\ ~EventAs("ForceFeedbackEvent", first)

\* The same for the results of the typed pass of the first CategorizeImpl:
\* an event whose class was chosen by its declared type.
AsAfterTypedPass ==
    (/\ Categorized
     /\ impl = "CheckEventType"
     /\ IsInCategory(CategorizeImpl(impl, TRUE, raw)))
        => EventAs(first.variant, first)

\* The static StaticType() of each class: InertiaEffect declares none and
\* has the one of ConstantEffect; the base Effect has none.
StaticType(ActualEffect) ==
    CASE ActualEffect \in {"ConstantEffect", "InertiaEffect"} -> kConstant
      [] ActualEffect = "RampEffect" -> kRamp
      [] ActualEffect = "SpringEffect" -> kSpring
      [] ActualEffect = "DamperEffect" -> kDamper
      [] ActualEffect = "FrictionEffect" -> kFriction
      [] ActualEffect = "PeriodicEffect" -> kPeriodic
      [] ActualEffect = "CustomEffect" -> kCustom
      [] ActualEffect = "RumbleEffect" -> kRumble

\* AnyEffect::As<ActualEffect>(): its assertion,
\* ActualEffect::StaticType() == Base().Type().
EffectAs(ActualEffect, any) == StaticType(ActualEffect) = Type(any)

\* C30: for a record with a recognized type tag, the effect that
\* AnyEffect::FromData returned satisfies the assertion of As<V>() for the
\* class V constructed for the tag.
C30_AsAfterFromData ==
    (cpc = "decoded" /\ data.type \in RecognizedTags) =>
        EffectAs(VariantOfTag(data.type), decoded)

\* A record of type FF_INERTIA was decoded to an InertiaEffect, whose Type()
\* is kInertia and whose StaticType() is kConstant.
AsInertiaAssertionFails ==
    /\ cpc = "decoded"
    /\ data.type = kInertia
    /\ decoded.variant = "InertiaEffect"
    /\ Type(decoded) = kInertia
    /\ StaticType("InertiaEffect") = kConstant

\* The same for the recognized tags other than FF_INERTIA.
AsAfterFromDataButInertia ==
    (cpc = "decoded" /\ data.type \in RecognizedTags \ {kInertia}) =>
        EffectAs(VariantOfTag(data.type), decoded)

====
